---- MODULE Spec2Model ----
(***************************************************************************)
(* d8analysis: statistical test runners, their result records, the         *)
(* profile factory that reads config/stats.yml, and the result plots.      *)
(*                                                                         *)
(* Encoding.  Probabilities (pvalue, alpha) and statistics are integers in *)
(* thousandths: 50 is 0.05.  Python's None is the empty tuple and a value  *)
(* v held by an optional attribute is the one-element tuple <<v>>.  An     *)
(* object is the record of its attributes (its __dict__).  A formatted     *)
(* string is the tuple of its literal pieces and the texts of its values.  *)
(* A call returns [exc |-> "", ...] or raises:                             *)
(* [exc |-> "<exception type>", ...].                                      *)
(***************************************************************************)
EXTENDS Integers, Sequences, FiniteSets, TLC

VARIABLES
    file,     \* config/stats.yml: test id -> row of descriptive fields
    lib,      \* what the statistics library answers for the runner's inputs
    runner,   \* the test runner object: None before construction
    log,      \* records handed to the loggers, oldest first
    last,     \* the last operation called and how it ended
    nruns,    \* run/__call__ calls made on the runner or the generator
    nok,      \* run/__call__ calls that returned normally
    created,  \* what the last call of the profile factory returned
    obj,      \* the result record whose plot is called
    axes,     \* the axes the plot draws on: name -> artists, oldest first
    nplots,   \* plot calls made on obj
    reads,    \* reads of config/stats.yml made so far
    previous, \* the profile factory's call before the last: arguments, return
    generator, \* the distribution generator object: None before construction
    dataset,  \* the Dataset object: None before construction
    idfile,   \* the shelve file of the id generators: None while it holds no idlist
    idgens,   \* the RandomIDGen objects and where each is in its __next__
    handed    \* the ids __next__ has returned for idfile, oldest first

vars == <<file, lib, runner, log, last, nruns, nok, created, obj, axes, nplots, reads,
          previous, generator, dataset, idfile, idgens, handed>>

plot_vars == <<obj, axes, nplots>>

None == <<>>

\* The variables of the parts added last, and their value before any of
\* those parts has acted.
aux_vars == <<dataset, idfile, idgens, handed>>
IdGens == {"g1", "g2"}
Unborn == [pc |-> "unborn"]
AuxInit ==
    /\ dataset = None
    /\ idfile = None
    /\ idgens = [g \in IdGens |-> Unborn]
    /\ handed = <<>>
Some(v) == <<v>>

\* The record rec with attribute k set to v (added if it is not there).
With(rec, k, v) == [x \in DOMAIN rec \cup {k} |-> IF x = k THEN v ELSE rec[x]]
Raise(e) == [exc |-> e]
Min(S) == CHOOSE m \in S : \A k \in S : m <= k

(***************************************************************************)
(* Bounds of the model.                                                    *)
(***************************************************************************)
MaxRuns == 3
\* The calls of __next__ started on the id generators.
MaxNext == 2
MaxPlots == 2
MaxCreates == 3
\* The points of a rendered curve (np.linspace(..., 500) or (..., 100)).
CurvePoints == 5

(***************************************************************************)
(* Number formatting.                                                      *)
(***************************************************************************)
\* round(x, 2) of a value in thousandths, in hundredths (ties to even).
Round2(x) ==
    LET a == IF x < 0 THEN -x ELSE x
        q == a \div 10
        r == a % 10
        m == IF r > 5 \/ (r = 5 /\ q % 2 = 1) THEN q + 1 ELSE q
    IN  IF x < 0 THEN -m ELSE m

\* int(alpha * 100): truncation to whole percent.
IntPct(alpha) == alpha \div 10

\* The text of a number inside a formatted string.
Str(n) == ToString(n)

\* StatisticalTest._report_pvalue
report_pvalue(pvalue) ==
    IF pvalue < 1 THEN <<"p<.001">> ELSE <<"P=", Str(pvalue)>>

\* StatisticalTest._report_alpha
report_alpha(alpha) == <<"significant at ", Str(IntPct(alpha)), "%.">>

(***************************************************************************)
(* Profile registry: StatTestProfile and its factory.                      *)
(***************************************************************************)
\* The init fields of the dataclass StatTestProfile.
StatTestProfile_fields ==
    {"id", "name", "description", "statistic", "analysis", "hypothesis", "H0",
     "parametric", "min_sample_size", "assumptions", "use_when"}

ProfileClasses == {"StatTestProfile", "StatTestProfileOne", "StatTestProfileTwo"}

\* fields(cls): the subclasses add the variable types.
fields(cls) ==
    StatTestProfile_fields \cup
    (CASE cls = "StatTestProfileOne" -> {"X_variable_type"}
       [] cls = "StatTestProfileTwo" -> {"X_variable_type", "Y_variable_type"}
       [] OTHER -> {})

\* IOService.read(STAT_CONFIG): the mapping the YAML file holds.
IOService_read(f) == f

\* cls(**filtered_dict): keywords given are stored, the rest default to None.
Profile_new(cls, kw) ==
    [cls |-> cls,
     attrs |-> [k \in fields(cls) |-> IF k \in DOMAIN kw THEN kw[k] ELSE None]]

\* A plausible slip: the row is passed to the constructor unfiltered, so a key
\* that is no field of cls is an unexpected keyword argument.
create_unfiltered(cls, id, f) ==
    LET profiles == IOService_read(f)
    IN  IF id \notin DOMAIN profiles THEN Raise("KeyError")
        ELSE LET profile == profiles[id]
                 dict == [k \in DOMAIN profile \cup {"id"} |->
                             IF k = "id" THEN Some(id) ELSE profile[k]]
             IN  IF DOMAIN dict \subseteq fields(cls)
                 THEN [exc |-> "", value |-> Profile_new(cls, dict)]
                 ELSE Raise("TypeError")

\* A plausible slip: profiles.get(id, {}) in place of profiles[id].
create_get(cls, id, f) ==
    LET profiles == IOService_read(f)
        profile == IF id \in DOMAIN profiles THEN profiles[id] ELSE <<>>
        fieldlist == fields(cls)
        filtered_dict == [k \in DOMAIN profile \cap fieldlist |-> profile[k]]
        dict == [k \in DOMAIN filtered_dict \cup {"id"} |->
                    IF k = "id" THEN Some(id) ELSE filtered_dict[k]]
    IN  [exc |-> "", value |-> Profile_new(cls, dict)]

\* StatTestProfile.create(cls, id)
create(cls, id, f) ==
    LET profiles == IOService_read(f)
    IN  IF id \notin DOMAIN profiles THEN Raise("KeyError")
        ELSE LET profile == profiles[id]
                 fieldlist == fields(cls)
                 filtered_dict == [k \in DOMAIN profile \cap fieldlist |-> profile[k]]
                 dict == [k \in DOMAIN filtered_dict \cup {"id"} |->
                             IF k = "id" THEN Some(id) ELSE filtered_dict[k]]
             IN  [exc |-> "", value |-> Profile_new(cls, dict)]

(***************************************************************************)
(* config/stats.yml.  The file is not part of the sources; rows are drawn  *)
(* from three shapes: every documented key, only a few keys, and every key *)
(* plus keys no profile type declares (and an "id" of its own).            *)
(***************************************************************************)
TestIds == {"x2gof", "kstest", "pearson", "t2", "ks1"}

RowFull(id) ==
    [name |-> Some(<<"name", id>>), description |-> Some(<<"description", id>>),
     statistic |-> Some(<<"statistic", id>>), analysis |-> Some("Univariate"),
     hypothesis |-> Some(<<"hypothesis", id>>), H0 |-> Some(<<"H0", id>>),
     parametric |-> Some(FALSE), min_sample_size |-> Some(30),
     assumptions |-> Some(<<"assumptions", id>>), use_when |-> None,
     X_variable_type |-> Some("Categorical"), Y_variable_type |-> Some("Continuous")]

RowSparse(id) ==
    [name |-> Some(<<"name", id>>), statistic |-> Some(<<"statistic", id>>),
     hypothesis |-> Some(<<"hypothesis", id>>), H0 |-> Some(<<"H0", id>>)]

RowExtra(id) ==
    With(With(RowFull(id), "id", Some("row-id")), "notes", Some(<<"notes", id>>))

RowsOf(id) == {RowFull(id), RowSparse(id), RowExtra(id)}

FullFile == [id \in TestIds |-> RowFull(id)]

\* The files a runner is constructed under: every test id present, or the
\* Kolmogorov-Smirnov id missing.
RunnerFiles ==
    {FullFile, [id \in TestIds \ {"kstest"} |-> RowExtra(id)]}

(***************************************************************************)
(* The statistics library.  Its functions are deterministic in their       *)
(* arguments, so one answer stands for the call a runner makes with the    *)
(* inputs it was constructed with; the answer is any of these.             *)
(***************************************************************************)
PValues == {4, 50, 500}
Statistics == {-1000, 250}

LibAnswers ==
    [exc : {""}, statistic : Statistics, pvalue : PValues]
    \cup {Raise("ValueError"), Raise("KeyError")}

\* The names scipy.stats knows as distributions (those the inputs use).
ScipyDistributions == {"norm", "expon"}

EqualFrequencies == <<"Equal Frequencies among Groups">>

RECURSIVE sum(_)
sum(xs) == IF xs = <<>> THEN 0 ELSE Head(xs) + sum(Tail(xs))

\* An answer whose statistic is a distance or a sum of squares: never negative.
NonNegative(answer) ==
    IF answer.exc # "" THEN answer
    ELSE [answer EXCEPT !.statistic = IF @ < 0 THEN -@ ELSE @]

\* stats.chisquare(f_obs, f_exp, axis=None): expected frequencies that are
\* not numbers cannot be summed, and arrays of two lengths (neither of them
\* one) cannot be broadcast.
stats_chisquare(f_obs, f_exp, answer) ==
    IF f_exp = Some(EqualFrequencies) THEN Raise("TypeError")
    ELSE IF f_exp # None /\ Len(f_exp[1]) # Len(f_obs) /\ 1 \notin {Len(f_exp[1]), Len(f_obs)}
    THEN Raise("ValueError")
    ELSE NonNegative(answer)

\* A plausible slip: the name is taken as given and never looked up.
stats_kstest_unchecked(rvs, cdf, answer) == NonNegative(answer)

\* stats.kstest(rvs, cdf, alternative): a string cdf is looked up as an
\* attribute of scipy.stats.distributions.
stats_kstest(rvs, cdf, answer) ==
    IF "str" \in DOMAIN cdf /\ cdf.str \notin ScipyDistributions
    THEN Raise("AttributeError")
    ELSE NonNegative(answer)

\* stats.goodness_of_fit(dist, data, statistic="ks", n_mc_samples=MC_SAMPLES):
\* the statistic follows from the arguments, the pvalue from the Monte Carlo
\* samples drawn during the call.
stats_goodness_of_fit(answer, mc_pvalue) ==
    IF answer.exc # "" THEN answer
    ELSE [NonNegative(answer) EXCEPT !.pvalue = mc_pvalue]

(***************************************************************************)
(* Test runners.  Each run operator takes the runner object and the        *)
(* library's answer and gives the object after the call, the records       *)
(* logged during it and the exception that left it ("" for none).          *)
(***************************************************************************)
LogRecord(self, level, what) == [logger |-> self.class, level |-> level, msg |-> what]

Returned(self, logged) == [exc |-> "", self |-> self, logged |-> logged]
Raised(e, self, logged) == [exc |-> e, self |-> self, logged |-> logged]

\* ---- ChiSquareTest (d8analysis) ----
ChiSquareTest_not_rejected(pvalue, alpha) ==
    <<"The pvalue ", Str(Round2(pvalue)), " is greater than level of significance ",
      Str(IntPct(alpha)), "%; therefore, the null hypothesis is not rejected. ",
      "The evidence against a common distribution was not significant.">>

ChiSquareTest_rejected(pvalue, alpha) ==
    <<"The pvalue ", Str(Round2(pvalue)), " is less than level of significance ",
      Str(IntPct(alpha)), "%; therefore, the null hypothesis is rejected. ",
      "The evidence against a common distribution is significant.">>

\* ChiSquareTest.run
ChiSquareTest_run(self, answer) ==
    LET dof == Len(self.observed) - 1
        r == stats_chisquare(self.observed, self.expected, answer)
    IN  IF r.exc # "" THEN Raised(r.exc, self, <<>>)
        ELSE
        LET inference == IF r.pvalue > self.alpha
                         THEN ChiSquareTest_not_rejected(r.pvalue, self.alpha)
                         ELSE ChiSquareTest_rejected(r.pvalue, self.alpha)
            expected == IF self.expected = None THEN Some(EqualFrequencies)
                        ELSE self.expected
            result ==
                [class |-> "ChiSquareResult",
                 test |-> self.profile.attrs.name, H0 |-> self.profile.attrs.H0,
                 statistic |-> Some("X2"),
                 hypothesis |-> self.profile.attrs.hypothesis,
                 dof |-> dof, value |-> r.statistic, pvalue |-> r.pvalue,
                 result |-> <<"X2(", Str(dof), ", N=", Str(sum(self.observed)), ")=",
                              Str(Round2(r.statistic)), ", ">>
                            \o report_pvalue(r.pvalue) \o <<" ">>
                            \o report_alpha(self.alpha),
                 observed |-> self.observed, expected |-> expected,
                 inference |-> inference, alpha |-> self.alpha,
                 interpretation |-> None]
        IN  Returned([self EXCEPT !.expected = expected, !.result = Some(result)], <<>>)

\* ---- KSTest (d8analysis) ----
IsStr(b) == "str" \in DOMAIN b

KSTest_tail(b, word) ==
    IF IsStr(b)
    THEN <<"The evidence against the data being drawn from the ", b.str, word>>
    ELSE <<"The evidence against the data being drawn from the same distribution", "", word>>

\* A plausible slip: the comparison is not strict.
KSTest_infer_ge(self, pvalue) ==
    IF pvalue >= self.alpha
    THEN <<"The pvalue ", Str(Round2(pvalue)), " is greater than level of significance ",
           Str(IntPct(self.alpha)), "%; therefore, the null hypothesis is not rejected. ">>
         \o KSTest_tail(self.b, " is not significant.")
    ELSE <<"The pvalue ", Str(Round2(pvalue)), " is less than level of significance ",
           Str(IntPct(self.alpha)), "%; therefore, the null hypothesis is rejected. ">>
         \o KSTest_tail(self.b, " is significant.")

\* KSTest._infer
KSTest_infer(self, pvalue) ==
    IF pvalue > self.alpha
    THEN <<"The pvalue ", Str(Round2(pvalue)), " is greater than level of significance ",
           Str(IntPct(self.alpha)), "%; therefore, the null hypothesis is not rejected. ">>
         \o KSTest_tail(self.b, " is not significant.")
    ELSE <<"The pvalue ", Str(Round2(pvalue)), " is less than level of significance ",
           Str(IntPct(self.alpha)), "%; therefore, the null hypothesis is rejected. ">>
         \o KSTest_tail(self.b, " is significant.")

\* KSTest._report_results: round(statistic, 4) and round(pvalue, 3) keep a
\* value in thousandths as it is.
KSTest_report_results(n, statistic, pvalue) ==
    <<"D(", Str(n), ")=", Str(statistic), ", p=", Str(pvalue)>>

KSTest_interpretation(n) ==
    IF n > 1000 THEN Some("Note: large sample sizes")
    ELSE IF n < 50 THEN Some("Note: requires a sample size N > 50")
    ELSE None

\* KSTest.run.  The handler of KeyError formats self._reference_distribution,
\* an attribute the class never sets, before it logs.
KSTest_run(self, answer) ==
    LET n == self.a.n
        r == stats_kstest(self.a, self.b, answer)
    IN  IF r.exc = "KeyError"
        THEN IF "reference_distribution" \in DOMAIN self
             THEN Raised("KeyError", self, <<LogRecord(self, "ERROR", "not supported")>>)
             ELSE Raised("AttributeError", self, <<>>)
        ELSE IF r.exc # "" THEN Raised(r.exc, self, <<>>)
        ELSE
        LET inference == KSTest_infer(self, r.pvalue)
            result ==
                [class |-> "KSTestResult",
                 test |-> self.profile.attrs.name, H0 |-> self.profile.attrs.H0,
                 statistic |-> self.profile.attrs.statistic,
                 hypothesis |-> self.profile.attrs.hypothesis,
                 value |-> r.statistic, pvalue |-> r.pvalue,
                 result |-> KSTest_report_results(n, r.statistic, r.pvalue),
                 a |-> self.a, b |-> self.b,
                 inference |-> inference,
                 interpretation |-> KSTest_interpretation(n),
                 alpha |-> self.alpha]
        IN  Returned([self EXCEPT !.result = Some(result)], <<>>)

\* ---- PearsonCorrelationTest (d8analysis) ----
\* A plausible slip: the thresholds are tested from the lowest up.
interpret_r_ascending(r) ==
    LET direction == IF r < 0 THEN "negative" ELSE "positive"
        a == IF r < 0 THEN -r ELSE r
    IN  IF a < 300 THEN <<"negligible correlation.", "", "">>
        ELSE IF a >= 300 THEN <<"low ", direction, " correlation.">>
        ELSE IF a >= 500 THEN <<"moderate ", direction, " correlation.">>
        ELSE IF a >= 700 THEN <<"high ", direction, " correlation.">>
        ELSE <<"very high ", direction, " correlation.">>

\* PearsonCorrelationTest._interpret_r
interpret_r(r) ==
    LET direction == IF r < 0 THEN "negative" ELSE "positive"
        a == IF r < 0 THEN -r ELSE r
    IN  IF a >= 900 THEN <<"very high ", direction, " correlation.">>
        ELSE IF a >= 700 THEN <<"high ", direction, " correlation.">>
        ELSE IF a >= 500 THEN <<"moderate ", direction, " correlation.">>
        ELSE IF a >= 300 THEN <<"low ", direction, " correlation.">>
        ELSE <<"negligible correlation.", "", "">>

Pearson_not_significant(r, dof, pvalue, alpha) ==
    <<"The two variables had ">> \o interpret_r(r)
    \o <<", r(", Str(dof), ")=", Str(Round2(r)), ", ">> \o report_pvalue(pvalue)
    \o <<".\nHowever, the pvalue, ", Str(Round2(pvalue)),
         " is greater than level of significance ", Str(IntPct(alpha)),
         "% indicating that the correlation coefficient is not statistically significant.">>

Pearson_significant(r, dof, pvalue, alpha) ==
    <<"The two variables had ">> \o interpret_r(r)
    \o <<", r(", Str(dof), ")=", Str(Round2(r)), ", ">> \o report_pvalue(pvalue)
    \o <<".\nFurther, the pvalue, ", Str(Round2(pvalue)),
         " is lower than level of significance ", Str(IntPct(alpha)),
         "% indicating that the correlation coefficient is statistically significant.">>

\* str.capitalize() of an interpretation: its first letter in upper case (the
\* others are in lower case already).
capitalize(text) ==
    <<CASE text[1] = "very high " -> "Very high "
        [] text[1] = "high " -> "High "
        [] text[1] = "moderate " -> "Moderate "
        [] text[1] = "low " -> "Low "
        [] text[1] = "negligible correlation." -> "Negligible correlation.">>
    \o Tail(text)

\* PearsonCorrelationTest._report_results
Pearson_report_results(r, pvalue, dof) ==
    <<"Pearson Correlation Test\nr(", Str(dof), ")=", Str(Round2(r)), ", ">>
    \o report_pvalue(pvalue) \o <<"\n">> \o capitalize(interpret_r(r))

\* stats.pearsonr(x, y, alternative="two-sided"): r is the covariance over
\* the product of the standard deviations, so columns on one line (neither
\* constant) have r = 1 or r = -1 and a pvalue of 0; for other columns the
\* answer is the library's.
stats_pearsonr(x, y, answer) ==
    LET n == Len(x)
        dot(u, v) == sum([i \in 1..n |-> u[i] * v[i]])
        sxy == n * dot(x, y) - sum(x) * sum(y)
        sxx == n * dot(x, x) - sum(x) * sum(x)
        syy == n * dot(y, y) - sum(y) * sum(y)
    IN  IF sxx > 0 /\ syy > 0 /\ sxy * sxy = sxx * syy
        THEN [exc |-> "", statistic |-> IF sxy > 0 THEN 1000 ELSE -1000, pvalue |-> 0]
        ELSE answer

\* self._data[self._a].values, self._data[self._b].values and stats.pearsonr:
\* None has no items, a DataFrame has no column of an unknown name.
Pearson_library_call(self, answer) ==
    IF self.data = None THEN Raise("TypeError")
    ELSE IF self.a = None \/ self.b = None THEN Raise("KeyError")
    ELSE IF ~ ({self.a[1], self.b[1]} \subseteq self.data[1].columns) THEN Raise("KeyError")
    ELSE stats_pearsonr(self.data[1].values[self.a[1]], self.data[1].values[self.b[1]],
                        answer)

\* A plausible slip: a failed computation is recorded as a result.
PearsonCorrelationTest_run_records_failure(self, answer) ==
    LET pearson_result == Pearson_library_call(self, answer)
    IN  IF pearson_result.exc # ""
        THEN Raised(pearson_result.exc,
                    [self EXCEPT !.result =
                        Some([class |-> "PearsonCorrelationResult",
                              inference |-> <<"Unable to calculate pearson correlation.">>,
                              alpha |-> self.alpha])],
                    <<LogRecord(self, "ERROR", "Unable to calculate pearson correlation.")>>)
        ELSE
        LET r == pearson_result.statistic
            pvalue == pearson_result.pvalue
            dof == self.data[1].nrows - 2
            inference == IF pvalue > self.alpha
                         THEN Pearson_not_significant(r, dof, pvalue, self.alpha)
                         ELSE Pearson_significant(r, dof, pvalue, self.alpha)
            result ==
                [class |-> "PearsonCorrelationResult",
                 test |-> self.profile.attrs.name, H0 |-> self.profile.attrs.H0,
                 statistic |-> self.profile.attrs.statistic,
                 hypothesis |-> self.profile.attrs.hypothesis,
                 value |-> r, pvalue |-> pvalue,
                 result |-> Pearson_report_results(r, pvalue, dof),
                 data |-> self.data, a |-> self.a, b |-> self.b,
                 inference |-> inference, alpha |-> self.alpha,
                 interpretation |-> None]
        IN  Returned([self EXCEPT !.result = Some(result)],
                     <<LogRecord(self, "DEBUG", "pearson_result"),
                       LogRecord(self, "DEBUG", "confidence_interval")>>)

\* PearsonCorrelationTest.run
PearsonCorrelationTest_run(self, answer) ==
    LET pearson_result == Pearson_library_call(self, answer)
    IN  IF pearson_result.exc # ""
        THEN Raised(pearson_result.exc, self,
                    <<LogRecord(self, "ERROR", "Unable to calculate pearson correlation.")>>)
        ELSE
        LET r == pearson_result.statistic
            pvalue == pearson_result.pvalue
            dof == self.data[1].nrows - 2
            inference == IF pvalue > self.alpha
                         THEN Pearson_not_significant(r, dof, pvalue, self.alpha)
                         ELSE Pearson_significant(r, dof, pvalue, self.alpha)
            result ==
                [class |-> "PearsonCorrelationResult",
                 test |-> self.profile.attrs.name, H0 |-> self.profile.attrs.H0,
                 statistic |-> self.profile.attrs.statistic,
                 hypothesis |-> self.profile.attrs.hypothesis,
                 value |-> r, pvalue |-> pvalue,
                 result |-> Pearson_report_results(r, pvalue, dof),
                 data |-> self.data, a |-> self.a, b |-> self.b,
                 inference |-> inference, alpha |-> self.alpha,
                 interpretation |-> None]
        IN  Returned([self EXCEPT !.result = Some(result)],
                     <<LogRecord(self, "DEBUG", "pearson_result"),
                       LogRecord(self, "DEBUG", "confidence_interval")>>)

\* ---- TTest (d8analysis) ----
TTest_not_rejected(pvalue, alpha) ==
    <<"The pvalue ", Str(Round2(pvalue)), " is greater than level of significance ",
      Str(IntPct(alpha)), "%; therefore, the null hypothesis is not rejected. ",
      "The evidence against identical centers for x and y is not significant.">>

TTest_rejected(pvalue, alpha) ==
    <<"The pvalue ", Str(Round2(pvalue)), " is less than level of significance ",
      Str(IntPct(alpha)), "%; therefore, the null hypothesis is rejected. ",
      "The evidence against identical centers for x and y is significant.">>

\* QuantStats.compute: the descriptive statistics of a sample.
QuantStats_compute(x) == [length |-> x.n, count |-> x.n, mean |-> x.mean, std |-> x.std]

\* TTest._report_results
TTest_report_results(x_stats, y_stats, dof, statistic, pvalue, alpha) ==
    <<"Independent Samples t Test\nX: (N = ", Str(x_stats.count), ", M = ", Str(Round2(x_stats.mean)),
      ", SD = ", Str(Round2(x_stats.std)), ")\nY: (N = ", Str(y_stats.count), ", M = ",
      Str(Round2(y_stats.mean)), ", SD = ", Str(Round2(y_stats.std)), ")\nt(", Str(dof), ") = ",
      Str(Round2(statistic)), ", ">> \o report_pvalue(pvalue) \o <<" ">> \o report_alpha(alpha)

\* The equal_var argument of stats.ttest_ind in TTest.run.
TTest_equal_var(self) == self.homoscedastic

\* A plausible slip: the degrees of freedom of one sample, len(x) - 1.
TTest_run_one_sample_dof(self, answer) ==
    IF answer.exc # "" THEN Raised(answer.exc, self, <<>>)
    ELSE
    LET statistic == answer.statistic
        pvalue == answer.pvalue
        x_stats == QuantStats_compute(self.x)
        y_stats == QuantStats_compute(self.y)
        dof == x_stats.length - 1
        inference == IF pvalue > self.alpha
                     THEN TTest_not_rejected(pvalue, self.alpha)
                     ELSE TTest_rejected(pvalue, self.alpha)
        result ==
            [class |-> "TTestResult",
             test |-> self.profile.attrs.name, H0 |-> self.profile.attrs.H0,
             statistic |-> self.profile.attrs.statistic,
             hypothesis |-> self.profile.attrs.hypothesis,
             homoscedastic |-> self.homoscedastic, dof |-> dof,
             value |-> IF statistic < 0 THEN -statistic ELSE statistic,
             pvalue |-> pvalue,
             result |-> TTest_report_results(x_stats, y_stats, dof, statistic,
                                             pvalue, self.alpha),
             x |-> self.x, y |-> self.y, x_stats |-> x_stats, y_stats |-> y_stats,
             inference |-> inference, alpha |-> self.alpha,
             interpretation |-> None]
    IN  Returned([self EXCEPT !.result = Some(result)], <<>>)

\* TTest.run: stats.ttest_ind(a, b, equal_var=self._homoscedastic)
TTest_run(self, answer) ==
    IF answer.exc # "" THEN Raised(answer.exc, self, <<>>)
    ELSE
    LET statistic == answer.statistic
        pvalue == answer.pvalue
        x_stats == QuantStats_compute(self.x)
        y_stats == QuantStats_compute(self.y)
        dof == x_stats.length + y_stats.length - 2
        inference == IF pvalue > self.alpha
                     THEN TTest_not_rejected(pvalue, self.alpha)
                     ELSE TTest_rejected(pvalue, self.alpha)
        result ==
            [class |-> "TTestResult",
             test |-> self.profile.attrs.name, H0 |-> self.profile.attrs.H0,
             statistic |-> self.profile.attrs.statistic,
             hypothesis |-> self.profile.attrs.hypothesis,
             homoscedastic |-> self.homoscedastic, dof |-> dof,
             value |-> IF statistic < 0 THEN -statistic ELSE statistic,
             pvalue |-> pvalue,
             result |-> TTest_report_results(x_stats, y_stats, dof, statistic,
                                             pvalue, self.alpha),
             x |-> self.x, y |-> self.y, x_stats |-> x_stats, y_stats |-> y_stats,
             inference |-> inference, alpha |-> self.alpha,
             interpretation |-> None]
    IN  Returned([self EXCEPT !.result = Some(result)], <<>>)

\* ---- KSOneTest (explorer) ----
\* The keys of DISTRIBUTIONS.
DISTRIBUTIONS ==
    {"beta", "normal", "chi2", "exponential", "f", "gamma", "logistic", "lognorm",
     "pareto", "uniform", "weibull_min"}

KSOneTest_not_rejected(pvalue, alpha) ==
    <<"The pvalue ", Str(Round2(pvalue)), " is greater than level of significance ", Str(alpha),
      "; therefore, the null hypothesis is not rejected. ",
      "The data were drawn from the reference distribution.">>

KSOneTest_rejected(pvalue, alpha) ==
    <<"The pvalue ", Str(Round2(pvalue)), " is less than level of significance ", Str(alpha),
      "; therefore, the null hypothesis is rejected. ",
      "The data were not drawn from the reference distribution.">>

\* A plausible slip: the earlier result is dropped when the call starts.
KSOneTest_call_clears(self, data, reference_distribution, answer, mc_pvalue) ==
    LET self1 == [With(self, "data", data) EXCEPT !.result = None]
        r == IF reference_distribution \notin DISTRIBUTIONS
             THEN Raise("KeyError")
             ELSE stats_goodness_of_fit(answer, mc_pvalue)
    IN  IF r.exc = "KeyError"
        THEN Raised("KeyError", self1, <<LogRecord(self, "ERROR", "not supported")>>)
        ELSE IF r.exc # "" THEN Raised(r.exc, self1, <<>>)
        ELSE
        LET pvalue == r.pvalue
            gtlt == IF pvalue > self.alpha THEN ">" ELSE "<"
            inference == IF pvalue > self.alpha
                         THEN KSOneTest_not_rejected(pvalue, self.alpha)
                         ELSE KSOneTest_rejected(pvalue, self.alpha)
            result ==
                [class |-> "KSOneTestResult",
                 test |-> self.profile.attrs.name, H0 |-> self.profile.attrs.H0,
                 statistic |-> self.profile.attrs.statistic,
                 hypothesis |-> self.profile.attrs.hypothesis,
                 value |-> r.statistic, pvalue |-> pvalue,
                 result |-> <<"(N=", Str(data.n), ")=", Str(Round2(r.statistic)), ", p",
                              gtlt, Str(self.alpha)>>,
                 data |-> data, reference_distribution |-> reference_distribution,
                 inference |-> inference, alpha |-> self.alpha]
        IN  Returned([self1 EXCEPT !.result = Some(result)],
                     <<LogRecord(self, "DEBUG", "types")>>)

\* KSOneTest.__call__.  stats.goodness_of_fit draws n_mc_samples Monte Carlo
\* samples with a fresh random state, so its pvalue is not a function of the
\* arguments: mc_pvalue is the draw of this call.
KSOneTest_call(self, data, reference_distribution, answer, mc_pvalue) ==
    LET self1 == With(self, "data", data)
        r == IF reference_distribution \notin DISTRIBUTIONS
             THEN Raise("KeyError")
             ELSE stats_goodness_of_fit(answer, mc_pvalue)
    IN  IF r.exc = "KeyError"
        THEN Raised("KeyError", self1, <<LogRecord(self, "ERROR", "not supported")>>)
        ELSE IF r.exc # "" THEN Raised(r.exc, self1, <<>>)
        ELSE
        LET pvalue == r.pvalue
            gtlt == IF pvalue > self.alpha THEN ">" ELSE "<"
            inference == IF pvalue > self.alpha
                         THEN KSOneTest_not_rejected(pvalue, self.alpha)
                         ELSE KSOneTest_rejected(pvalue, self.alpha)
            result ==
                [class |-> "KSOneTestResult",
                 test |-> self.profile.attrs.name, H0 |-> self.profile.attrs.H0,
                 statistic |-> self.profile.attrs.statistic,
                 hypothesis |-> self.profile.attrs.hypothesis,
                 value |-> r.statistic, pvalue |-> pvalue,
                 result |-> <<"(N=", Str(data.n), ")=", Str(Round2(r.statistic)), ", p",
                              gtlt, Str(self.alpha)>>,
                 data |-> data, reference_distribution |-> reference_distribution,
                 inference |-> inference, alpha |-> self.alpha]
        IN  Returned([self1 EXCEPT !.result = Some(result)],
                     <<LogRecord(self, "DEBUG", "types")>>)

\* ---- ChiSquareGOFTest (explorer) ----
\* frame.sort_index().values: the values in the order of their labels.
RECURSIVE sort_index_values(_)
sort_index_values(f) ==
    IF DOMAIN f = {} THEN <<>>
    ELSE LET k == Min(DOMAIN f)
         IN  <<f[k]>> \o sort_index_values([x \in DOMAIN f \ {k} |-> f[x]])

\* frame.sort_index().index: the labels in the order sort_index gives the rows.
RECURSIVE sort_index_labels(_)
sort_index_labels(f) ==
    IF DOMAIN f = {} THEN <<>>
    ELSE LET k == Min(DOMAIN f)
         IN  <<k>> \o sort_index_labels([x \in DOMAIN f \ {k} |-> f[x]])

\* The f_obs and f_exp of stats.chisquare in ChiSquareGOFTest.__call__ when
\* expected is given, each with the labels its rows had before .values
\* dropped them.
ChiSquareGOFTest_frequencies(data, expected) ==
    [f_obs |-> sort_index_values(data), f_exp |-> sort_index_values(expected),
     obs_labels |-> sort_index_labels(data),
     exp_labels |-> sort_index_labels(expected)]

\* ChiSquareGOFTest.__call__(data, expected): data is given by the count of
\* each category label.  The result text is formatted with _report_pvalue and
\* _report_alpha, which neither the class nor its base StatisticalTest
\* defines, so the call raises before it stores a result.
ChiSquareGOFTest_call(self, data, expected, answer) ==
    LET self1 == With(self, "data", data)
        observed == sort_index_values(data)
        expected_values == IF expected = None THEN None
                           ELSE Some(sort_index_values(expected[1]))
        dof == Len(observed) - 1
        r == stats_chisquare(observed, expected_values, answer)
    IN  IF r.exc # "" THEN Raised(r.exc, self1, <<>>)
        ELSE Raised("AttributeError", self1, <<>>)

(***************************************************************************)
(* Inputs of the runners.                                                  *)
(***************************************************************************)
DefaultAlpha == 50

\* alpha as the caller gives it: left out, 0.01 or 0.1, or a number that is
\* no significance level (0, 1.5); no constructor looks at the value.
AlphaArgs == {None, Some(10), Some(100), Some(0), Some(1500)}
AlphaOf(arg) == IF arg = None THEN DefaultAlpha ELSE arg[1]

Sample(n) == [n |-> n, mean |-> 5000 + n, std |-> 1000]
Samples == {Sample(30), Sample(100), Sample(1200)}

ChiSquareInputs ==
    {[observed |-> <<10, 20, 30, 40>>, expected |-> None],
     [observed |-> <<10, 20, 30, 40>>, expected |-> Some(<<25, 25, 25, 25>>)],
     [observed |-> <<6, 14>>, expected |-> None]}

KSReferences == {[str |-> "norm"], [str |-> "fake"], Sample(100)}

Table5 ==
    [nrows |-> 5, columns |-> {"a", "b", "c"},
     values |-> [a |-> <<1, 2, 3, 4, 5>>, b |-> <<2, 4, 6, 8, 10>>,
                 c |-> <<5, 3, 8, 1, 9>>]]
PearsonInputs ==
    {[data |-> None, a |-> None, b |-> Some("sample b")],
     [data |-> Some(Table5), a |-> Some("a"), b |-> Some("b")],
     [data |-> Some(Table5), a |-> Some("a"), b |-> Some("c")],
     [data |-> Some(Table5), a |-> Some("a"), b |-> Some("Age")]}

ReferenceNames == {"normal", "fake"}

\* Categorical data by the count of each label (labels 1..4), and expected
\* frequencies by label.
CategoryCounts == {[label \in 1..4 |-> <<10, 20, 30, 40>>[label]]}
ExpectedArgs ==
    {None, Some([label \in 1..4 |-> 25]), Some([label \in 2..5 |-> 25]),
     Some([label \in 1..3 |-> <<30, 30, 40>>[label]])}

(***************************************************************************)
(* Operations on a runner.                                                 *)
(***************************************************************************)
NoCall == [op |-> "none", exc |-> "", args |-> <<>>]

\* __init__ of a runner: store the inputs, load the profile, result = None.
\* A failing profile lookup leaves the constructor and no object exists.
NewRunner(class, profile_class, id, attrs, args) ==
    LET p == create(profile_class, id, file)
    IN  /\ runner = None
        /\ last.op = "none"
        /\ IF p.exc # ""
           THEN runner' = None
           ELSE runner' = Some(With(With(With(attrs, "class", class),
                                              "profile", p.value), "result", None))
        /\ last' = [op |-> "__init__", exc |-> p.exc, args |-> args]
        /\ reads' = reads + 1
        /\ UNCHANGED <<file, lib, log, nruns, nok, created, previous>>
        /\ UNCHANGED plot_vars
        /\ UNCHANGED generator
        /\ UNCHANGED aux_vars

ChiSquareTest_init(input, alpha) ==
    NewRunner("ChiSquareTest", "StatTestProfileTwo", "x2gof",
              [observed |-> input.observed, expected |-> input.expected,
               alpha |-> AlphaOf(alpha)], <<alpha>>)

KSTest_init(a, b, alpha) ==
    NewRunner("KSTest", "StatTestProfileOne", "kstest",
              [a |-> a, b |-> b, alpha |-> AlphaOf(alpha)], <<alpha>>)

PearsonCorrelationTest_init(input, alpha) ==
    NewRunner("PearsonCorrelationTest", "StatTestProfileTwo", "pearson",
              [data |-> input.data, a |-> input.a, b |-> input.b,
               alpha |-> AlphaOf(alpha)], <<alpha>>)

\* homoscedastic: left out (None) or given.
TTest_init(x, y, alpha, homoscedastic) ==
    NewRunner("TTest", "StatTestProfileTwo", "t2",
              [x |-> x, y |-> y, alpha |-> AlphaOf(alpha),
               homoscedastic |-> IF homoscedastic = None THEN FALSE
                                 ELSE homoscedastic[1]],
              <<alpha, homoscedastic>>)

ChiSquareGOFTest_init(alpha) ==
    NewRunner("ChiSquareGOFTest", "StatTestProfileTwo", "x2gof",
              [alpha |-> AlphaOf(alpha)], <<alpha>>)

KSOneTest_init(alpha) ==
    NewRunner("KSOneTest", "StatTestProfileOne", "ks1", [alpha |-> AlphaOf(alpha)], <<alpha>>)

\* A plausible slip: the call loads the profile again, as the constructor does.
Called_reloads(op, args, r) ==
    LET p == create(r.self.profile.cls, r.self.profile.attrs.id[1], file)
    IN  /\ runner' = Some(IF p.exc = "" THEN With(r.self, "profile", p.value) ELSE r.self)
        /\ log' = log \o r.logged
        /\ last' = [op |-> op, exc |-> r.exc, args |-> args]
        /\ nruns' = nruns + 1
        /\ nok' = IF r.exc = "" THEN nok + 1 ELSE nok
        /\ reads' = reads + 1
        /\ UNCHANGED <<file, lib, created, previous>>
        /\ UNCHANGED plot_vars
        /\ UNCHANGED generator
        /\ UNCHANGED aux_vars

\* The effect of one run/__call__ that ended as r says.
Called(op, args, r) ==
    /\ runner' = Some(r.self)
    /\ log' = log \o r.logged
    /\ last' = [op |-> op, exc |-> r.exc, args |-> args]
    /\ nruns' = nruns + 1
    /\ nok' = IF r.exc = "" THEN nok + 1 ELSE nok
    /\ UNCHANGED <<file, lib, created, reads, previous>>
    /\ UNCHANGED plot_vars
    /\ UNCHANGED generator
    /\ UNCHANGED aux_vars

IsRunner(class) == runner # None /\ runner[1].class = class /\ nruns < MaxRuns

ChiSquareTest_run_call ==
    /\ IsRunner("ChiSquareTest")
    /\ Called("run", <<>>, ChiSquareTest_run(runner[1], lib))

KSTest_run_call ==
    /\ IsRunner("KSTest")
    /\ Called("run", <<>>, KSTest_run(runner[1], lib))

PearsonCorrelationTest_run_call ==
    /\ IsRunner("PearsonCorrelationTest")
    /\ Called("run", <<>>, PearsonCorrelationTest_run(runner[1], lib))

TTest_run_call ==
    /\ IsRunner("TTest")
    /\ Called("run", <<>>, TTest_run(runner[1], lib))

KSOneTest_call_call(data, reference_distribution, mc_pvalue) ==
    /\ IsRunner("KSOneTest")
    /\ Called("__call__", <<data, reference_distribution>>,
              KSOneTest_call(runner[1], data, reference_distribution, lib, mc_pvalue))

ChiSquareGOFTest_call_call(data, expected) ==
    /\ IsRunner("ChiSquareGOFTest")
    /\ Called("__call__", <<data, expected>>,
              ChiSquareGOFTest_call(runner[1], data, expected, lib))

Init ==
    /\ file \in RunnerFiles
    /\ lib \in LibAnswers
    /\ runner = None
    /\ log = <<>>
    /\ last = NoCall
    /\ nruns = 0
    /\ nok = 0
    /\ created = None
    /\ obj = None
    /\ axes = <<>>
    /\ nplots = 0
    /\ reads = 0
    /\ previous = None
    /\ generator = None
    /\ AuxInit

Next ==
    \/ \E input \in ChiSquareInputs, alpha \in AlphaArgs : ChiSquareTest_init(input, alpha)
    \/ \E a \in Samples, b \in KSReferences, alpha \in AlphaArgs : KSTest_init(a, b, alpha)
    \/ \E input \in PearsonInputs, alpha \in AlphaArgs :
          PearsonCorrelationTest_init(input, alpha)
    \/ \E alpha \in AlphaArgs, h \in {None, Some(TRUE), Some(FALSE)} :
          \E x \in {Sample(30), Sample(100)} : TTest_init(x, Sample(100), alpha, h)
    \/ \E alpha \in AlphaArgs : KSOneTest_init(alpha)
    \/ \E alpha \in AlphaArgs : ChiSquareGOFTest_init(alpha)
    \/ \E data \in CategoryCounts, expected \in ExpectedArgs :
          ChiSquareGOFTest_call_call(data, expected)
    \/ ChiSquareTest_run_call
    \/ KSTest_run_call
    \/ PearsonCorrelationTest_run_call
    \/ TTest_run_call
    \/ \E data \in {Sample(30), Sample(100)}, d \in ReferenceNames, p \in PValues :
          KSOneTest_call_call(data, d, p)

Spec == Init /\ [][Next]_vars

(***************************************************************************)
(* The result plots.  An axes is the sequence of the artists drawn on it,  *)
(* oldest first; an artist carries its kind, its text and the x positions  *)
(* it is drawn at.  Statistics and x positions are thousandths.            *)
(***************************************************************************)
Artist(kind, label, x) == [kind |-> kind, label |-> label, x |-> x]

\* The library's quantile functions: increasing in q (thousandths).
kstwo_ppf(q, n) == IF n >= 100 THEN 50 + (2 * q) \div 10 ELSE 100 + (4 * q) \div 10
ksone_ppf(q, n) == IF n >= 100 THEN 40 + (2 * q) \div 10 ELSE 80 + (4 * q) \div 10
chi2_ppf(q, dof) == dof * q * 4

\* np.linspace(start, stop, num)
linspace(start, stop, num) ==
    [i \in 1..num |-> start + ((i - 1) * (stop - start)) \div (num - 1)]

\* sns.lineplot(x=x, y=y, ax=ax)
lineplot(ax, x) == Append(ax, Artist("line", <<>>, x))
\* ax.fill_between(x=..., y1=0, y2=...)
fill_between(ax, from, to) == Append(ax, Artist("fill_between", <<>>, <<from, to>>))
\* ax.annotate(text, (x, y), ...)
annotate(ax, text, x) == Append(ax, Artist("annotate", text, <<x>>))
\* sns.regplot(x=[x], y=[y], scatter=True, fit_reg=False, marker="o", ax=ax)
regplot(ax, x) == Append(ax, Artist("scatter", <<"o">>, <<x>>))
\* ax.set_title / ax.set_xlabel / ax.set_ylabel / sns.ecdfplot / sns.kdeplot
decorate(ax, kind, text) == Append(ax, Artist(kind, text, <<>>))

\* ax.lines
lines(ax) == SelectSeq(ax, LAMBDA artist : artist.kind = "line")
\* np.where(xdata > value)[0]
where_greater(xdata, value) == {i \in 1..Len(xdata) : xdata[i] > value}

\* KSTestResult._fill_reject_region: both tails are filled; the marker, the
\* "D =" annotation and the two "Critical Value" annotations are drawn inside
\* one try block that an IndexError from [0][0] leaves at once.
KSTestResult_fill_reject_region(self, ax1, lower, upper, lower_critical, upper_critical) ==
    LET filled == fill_between(fill_between(ax1, lower, lower_critical),
                               upper_critical, upper)
        xdata == lines(filled)[1].x
        found == where_greater(xdata, self.value)
    IN  IF found = {} THEN filled
        ELSE LET x == xdata[Min(found)]
             IN  annotate(
                   annotate(
                     annotate(regplot(filled, x), <<"D = ", Str(self.value)>>, x),
                     <<"Critical Value">>, lower_critical),
                   <<"Critical Value">>, upper_critical)

\* KSTestResult._plot_statistic
KSTestResult_plot_statistic(self, ax1) ==
    LET n == self.a.n
        x == linspace(kstwo_ppf(1, n), kstwo_ppf(999, n), CurvePoints)
        lower == x[1]
        upper == x[Len(x)]
        lower_alpha == self.alpha \div 2
        upper_alpha == 1000 - self.alpha \div 2
        lower_critical == kstwo_ppf(lower_alpha, n)
        upper_critical == kstwo_ppf(upper_alpha, n)
        drawn == KSTestResult_fill_reject_region(self, lineplot(ax1, x), lower, upper,
                                                 lower_critical, upper_critical)
    IN  decorate(decorate(drawn, "title",
                          <<"Kolmogorov-Smirnov Goodness of Fit\n">> \o self.result),
                 "ylabel", <<"Probability Density">>)

\* The names the distribution generator has a generator for.
GENERATORS ==
    {"beta", "normal", "chi2", "exponential", "f", "gamma", "logistic", "lognorm",
     "uniform", "weibull_min", "pareto"}

\* RVSDistribution()(data=data, distribution=distribution)
RVSDistribution_call(data, distribution) ==
    IF distribution \in GENERATORS THEN [exc |-> ""] ELSE Raise("NotImplementedError")

\* KSTestResult._plot_cdf (what = "Cumulative Distribution Function") and
\* KSTestResult._plot_pdf (what = "Probability Density Function")
KSTestResult_plot_function(self, ax, what) ==
    IF "str" \in DOMAIN self.b
    THEN LET d == RVSDistribution_call(self.a, self.b.str)
         IN  IF d.exc # "" THEN [exc |-> d.exc, ax |-> ax]
             ELSE [exc |-> "",
                   ax |-> decorate(
                            lineplot(decorate(ax, "empirical", <<"Empirical ", what>>),
                                     <<>>),
                            "title", <<"Theoretical and Empirical ", what>>)]
    ELSE [exc |-> "",
          ax |-> decorate(
                   decorate(
                     decorate(
                       decorate(ax, "empirical", <<what, ": Sample 1">>),
                       "empirical", <<what, ": Sample 2">>),
                     "legend", <<>>),
                   "title", <<"Two Sample ", what>>)]

\* KSTestResult.plot: the statistic, then the CDFs, then the PDFs, each on
\* the axes made for it when the result was constructed.
KSTestResult_plot(self, figure) ==
    LET ax1 == KSTestResult_plot_statistic(self, figure.ax1)
        cdf == KSTestResult_plot_function(self, figure.ax2, "Cumulative Distribution Function")
        pdf == KSTestResult_plot_function(self, figure.ax3, "Probability Density Function")
    IN  IF cdf.exc # ""
        THEN [exc |-> cdf.exc, axes |-> [ax1 |-> ax1, ax2 |-> cdf.ax, ax3 |-> figure.ax3]]
        ELSE [exc |-> pdf.exc, axes |-> [ax1 |-> ax1, ax2 |-> cdf.ax, ax3 |-> pdf.ax]]

\* StatTestResult._fill_curve, and the same lines of KSOneTestResult.plot
fill_curve(self, ax) ==
    LET xdata == lines(ax)[1].x
        found == where_greater(xdata, self.value)
    IN  IF found = {} THEN ax
        ELSE fill_between(ax, xdata[Min(found)], xdata[Len(xdata)])

\* ChiSquareGOFResult.plot(ax): ax is the caller's axes or a new Canvas().ax
ChiSquareGOFResult_plot(self, ax) ==
    LET x == linspace(chi2_ppf(10, self.dof), chi2_ppf(990, self.dof), CurvePoints)
        drawn == fill_curve(self, lineplot(ax, x))
    IN  [exc |-> "",
         axes |-> [ax |-> decorate(
                            decorate(
                              decorate(drawn, "title",
                                       <<"X2 Goodness of Fit\nTest Result\n">> \o self.result),
                              "xlabel", <<"$X^2$">>),
                            "ylabel", <<"Probability Density">>)]]

\* KSOneTestResult.plot(ax)
KSOneTestResult_plot(self, ax) ==
    LET n == self.data.n
        x == linspace(ksone_ppf(10, n), ksone_ppf(999, n), CurvePoints)
        drawn == fill_curve(self, lineplot(ax, x))
    IN  [exc |-> "",
         axes |-> [ax |-> decorate(
                            decorate(
                              decorate(drawn, "title",
                                       <<"Goodness of Fit\n", self.reference_distribution,
                                         " Distribution\n">> \o self.result),
                              "xlabel", <<"Value">>),
                            "ylabel", <<"Probability Density">>)]]

(***************************************************************************)
(* The results that are plotted, and the plot calls.                       *)
(***************************************************************************)
KSValues == {50, 300, 499, 600}
ChiSquareValues == {250, 5000, 11880, 20000}
PlotAlphas == {50, 100}

\* The result texts, as the runners format them.
ChiSquareGOF_report(dof, n, statistic, pvalue, alpha) ==
    <<"X2(", Str(dof), ", N=", Str(n), ")=", Str(Round2(statistic)), ", ">>
    \o report_pvalue(pvalue) \o <<" ">> \o report_alpha(alpha)

KSOne_report(n, statistic, pvalue, alpha) ==
    <<"(N=", Str(n), ")=", Str(Round2(statistic)), ", p",
      IF pvalue > alpha THEN ">" ELSE "<", Str(alpha)>>

KSTestResults ==
    {[class |-> "KSTestResult", value |-> value, alpha |-> alpha, a |-> a, b |-> b,
      result |-> KSTest_report_results(a.n, value, 40)] :
        value \in KSValues, alpha \in PlotAlphas, a \in {Sample(30), Sample(100)},
        b \in {[str |-> "normal"], Sample(100)}}

ChiSquareGOFResults ==
    {[class |-> "ChiSquareGOFResult", value |-> value, alpha |-> DefaultAlpha,
      dof |-> dof, result |-> ChiSquareGOF_report(dof, 100, value, 40, DefaultAlpha)] :
        value \in ChiSquareValues, dof \in {1, 3}}

KSOneTestResults ==
    {[class |-> "KSOneTestResult", value |-> value, alpha |-> DefaultAlpha,
      data |-> data, reference_distribution |-> "normal",
      result |-> KSOne_report(data.n, value, 40, DefaultAlpha)] :
        value \in KSValues, data \in {Sample(30), Sample(100)}}

\* plt.subplots(nrows=3, ncols=1) of KSTestResult.__post_init__
NewFigure == [ax1 |-> <<>>, ax2 |-> <<>>, ax3 |-> <<>>]

Plotted(r) ==
    /\ nplots < MaxPlots
    /\ nplots' = nplots + 1
    /\ axes' = r.axes
    /\ last' = [op |-> "plot", exc |-> r.exc, args |-> <<>>]
    /\ UNCHANGED <<file, lib, runner, log, nruns, nok, created, obj, reads, previous,
                   generator, aux_vars>>

KSTestResult_plot_call ==
    /\ obj.class = "KSTestResult"
    /\ Plotted(KSTestResult_plot(obj, axes))

\* ax = ax or canvas.ax
ChiSquareGOFResult_plot_call(ax) ==
    /\ obj.class = "ChiSquareGOFResult"
    /\ ax # None => nplots > 0
    /\ Plotted(ChiSquareGOFResult_plot(obj, IF ax = None THEN <<>> ELSE axes.ax))

KSOneTestResult_plot_call(ax) ==
    /\ obj.class = "KSOneTestResult"
    /\ ax # None => nplots > 0
    /\ Plotted(KSOneTestResult_plot(obj, IF ax = None THEN <<>> ELSE axes.ax))

InitPlot ==
    /\ obj \in KSTestResults \cup ChiSquareGOFResults \cup KSOneTestResults
    /\ axes = IF obj.class = "KSTestResult" THEN NewFigure ELSE <<>>
    /\ nplots = 0
    /\ reads = 0
    /\ previous = None
    /\ generator = None
    /\ AuxInit
    /\ last = NoCall
    /\ file = FullFile
    /\ lib = Raise("ValueError")
    /\ runner = None
    /\ log = <<>>
    /\ nruns = 0
    /\ nok = 0
    /\ created = None

NextPlot ==
    \/ KSTestResult_plot_call
    \/ \E ax \in {None, Some("ax")} : ChiSquareGOFResult_plot_call(ax)
    \/ \E ax \in {None, Some("ax")} : KSOneTestResult_plot_call(ax)

SpecPlot == InitPlot /\ [][NextPlot]_vars

(***************************************************************************)
(* PearsonCorrelationResult.plot (d8analysis/quantitative/inferential/     *)
(* relational/pearson.py).  Here axes maps each Axes object there is to    *)
(* what was drawn on it; the caller's Axes objects exist from the start.   *)
(***************************************************************************)
MaxPearsonPlots == 3

CallerAxes == {<<"caller", 1>>, <<"caller", 2>>}

\* Canvas.get_figaxes() with nplots = 1: plt.subplots makes a figure with one
\* Axes of its own.
get_figaxes(axs) ==
    <<"canvas", Cardinality({a \in DOMAIN axs : a[1] = "canvas"}) + 1>>

\* A plausible slip: ax = ax or canvas axes, the kept axes never used.
PearsonCorrelationResult_ax_unkept(self, ax, axs) ==
    IF ax # None THEN ax ELSE Some(get_figaxes(axs))

\* The if / elif on top of plot: the value of self._ax afterwards.
PearsonCorrelationResult_ax(self, ax, axs) ==
    IF ax # None THEN ax
    ELSE IF self.ax = None THEN Some(get_figaxes(axs))
    ELSE self.ax

\* sns.regplot returns the Axes it was given, after drawing on it; set_title
\* follows.
PearsonCorrelationResult_plot(self, ax, axs) ==
    LET kept == PearsonCorrelationResult_ax(self, ax, axs)
        before == IF kept[1] \in DOMAIN axs THEN axs[kept[1]] ELSE <<>>
        drawn == decorate(Append(before, Artist("regplot", <<self.a, self.b>>, <<>>)),
                          "title", self.result)
    IN  [exc |-> "", self |-> With(self, "ax", kept),
         axes |-> [a \in DOMAIN axs \cup {kept[1]} |->
                      IF a = kept[1] THEN drawn ELSE axs[a]]]

\* PearsonCorrelationResult.__post_init__ leaves self._ax None.
PearsonCorrelationResults ==
    {[class |-> "PearsonCorrelationResult", value |-> r, pvalue |-> pvalue,
      result |-> Pearson_report_results(r, pvalue, 3), a |-> "a", b |-> b,
      ax |-> None] : r \in {1000, -300}, pvalue \in {0, 400}, b \in {"b", "c"}}

PearsonCorrelationResult_plot_call(ax) ==
    /\ obj.class = "PearsonCorrelationResult"
    /\ nplots < MaxPearsonPlots
    /\ LET r == PearsonCorrelationResult_plot(obj, ax, axes) IN
        /\ obj' = r.self
        /\ axes' = r.axes
        /\ last' = [op |-> "plot", exc |-> r.exc, args |-> <<ax>>]
    /\ nplots' = nplots + 1
    /\ UNCHANGED <<file, lib, runner, log, nruns, nok, created, reads, previous,
                   generator, aux_vars>>

InitPearsonPlot ==
    /\ obj \in PearsonCorrelationResults
    /\ axes = [a \in CallerAxes |-> <<>>]
    /\ nplots = 0
    /\ reads = 0
    /\ previous = None
    /\ generator = None
    /\ AuxInit
    /\ last = NoCall
    /\ file = FullFile
    /\ lib = Raise("ValueError")
    /\ runner = None
    /\ log = <<>>
    /\ nruns = 0
    /\ nok = 0
    /\ created = None

NextPearsonPlot ==
    \E ax \in {None} \cup {Some(a) : a \in CallerAxes} :
        PearsonCorrelationResult_plot_call(ax)

SpecPearsonPlot == InitPearsonPlot /\ [][NextPearsonPlot]_vars

(***************************************************************************)
(* Canvas.get_figaxes (d8analysis/visual/config.py).  An axes is the place *)
(* add_subplot got: its row, its first column and whether it is the slice  *)
(* col: (to the end of the row).  Here axes lists the figures made, each   *)
(* by the axes returned for it.                                            *)
(***************************************************************************)
MaxFigures == 2
MaxCols == 4
MaxNPlots == 7

\* math.ceil(a / b) for positive integers
ceil(a, b) == (a + b - 1) \div b

\* The grid cells an axes covers on a grid of ncols columns.
Cells(ax, ncols) ==
    {<<ax.row, c>> : c \in (IF ax.to_end THEN ax.col..(ncols - 1) ELSE {ax.col})}

\* A plausible slip: the last axes gets one cell like the others.
Canvas_get_figaxes_no_slice(self, count) ==
    IF count = 1 THEN <<[row |-> 0, col |-> 0, to_end |-> FALSE]>>
    ELSE LET ncols == Min({self.maxcols, count})
         IN  [i \in 1..count |->
                 [row |-> (i - 1) \div ncols, col |-> (i - 1) % ncols,
                  to_end |-> FALSE]]

\* get_figaxes(nplots=count): the axes returned, in order.  For one plot,
\* plt.subplots gives the single axes of a one-cell figure.
Canvas_get_figaxes(self, count) ==
    IF count = 1 THEN <<[row |-> 0, col |-> 0, to_end |-> FALSE]>>
    ELSE LET ncols == Min({self.maxcols, count})
         IN  [i \in 1..count |->
                 LET idx == i - 1 IN
                 [row |-> idx \div ncols, col |-> idx % ncols,
                  to_end |-> ~(idx < count - 1)]]

Canvases == {[class |-> "Canvas", maxcols |-> m] : m \in 1..MaxCols}

Canvas_get_figaxes_call(count) ==
    /\ obj.class = "Canvas"
    /\ Len(axes) < MaxFigures
    /\ axes' = Append(axes, Canvas_get_figaxes(obj, count))
    /\ last' = [op |-> "get_figaxes", exc |-> "", args |-> <<count>>]
    /\ UNCHANGED <<file, lib, runner, log, nruns, nok, created, obj, nplots, reads,
                   previous, generator, aux_vars>>

InitCanvas ==
    /\ obj \in Canvases
    /\ axes = <<>>
    /\ nplots = 0
    /\ reads = 0
    /\ previous = None
    /\ generator = None
    /\ AuxInit
    /\ last = NoCall
    /\ file = FullFile
    /\ lib = Raise("ValueError")
    /\ runner = None
    /\ log = <<>>
    /\ nruns = 0
    /\ nok = 0
    /\ created = None

NextCanvas == \E count \in 1..MaxNPlots : Canvas_get_figaxes_call(count)

SpecCanvas == InitCanvas /\ [][NextCanvas]_vars

(***************************************************************************)
(* The profile factory, called on its own.                                 *)
(***************************************************************************)
\* Files holding any of three test ids, each row of any shape.
FileIds == {"x2gof", "kstest", "t2"}
ConfigFiles == UNION {[ids -> UNION {RowsOf(id) : id \in ids}] : ids \in SUBSET FileIds}
WellFormed(f) == \A id \in DOMAIN f : f[id] \in RowsOf(id)
RequestedIds == FileIds \cup {"bogus"}

\* A plausible slip: the factory memoizes its return by arguments.
StatTestProfile_create_memoized(cls, id) ==
    LET hit == last.op = "create" /\ last.args = <<cls, id>>
    IN  /\ reads < MaxCreates
        /\ created' = IF hit THEN created ELSE create(cls, id, file)
        /\ last' = [op |-> "create", exc |-> created'.exc, args |-> <<cls, id>>]
        /\ reads' = IF hit THEN reads ELSE reads + 1
        /\ previous' = IF last.op = "create"
                       THEN Some([args |-> last.args, returned |-> created])
                       ELSE None
        /\ UNCHANGED <<file, lib, runner, log, nruns, nok>>
        /\ UNCHANGED plot_vars
        /\ UNCHANGED generator
        /\ UNCHANGED aux_vars

StatTestProfile_create(cls, id) ==
    /\ reads < MaxCreates
    /\ created' = create(cls, id, file)
    /\ last' = [op |-> "create", exc |-> created'.exc, args |-> <<cls, id>>]
    /\ reads' = reads + 1
    /\ previous' = IF last.op = "create"
                   THEN Some([args |-> last.args, returned |-> created])
                   ELSE None
    /\ UNCHANGED <<file, lib, runner, log, nruns, nok>>
    /\ UNCHANGED plot_vars
    /\ UNCHANGED generator
    /\ UNCHANGED aux_vars

InitProfile ==
    /\ file \in {f \in ConfigFiles : WellFormed(f)}
    /\ created = None
    /\ last = NoCall
    /\ lib = Raise("ValueError")
    /\ runner = None
    /\ log = <<>>
    /\ nruns = 0
    /\ nok = 0
    /\ obj = None
    /\ axes = <<>>
    /\ nplots = 0
    /\ reads = 0
    /\ previous = None
    /\ generator = None
    /\ AuxInit

\* config/stats.yml is rewritten by whoever maintains it.
ConfigFile_edit(f) ==
    /\ f # file
    /\ file' = f
    /\ UNCHANGED <<lib, runner, log, last, nruns, nok, created, reads, previous>>
    /\ UNCHANGED plot_vars
    /\ UNCHANGED generator
    /\ UNCHANGED aux_vars

NextProfile == \E cls \in ProfileClasses, id \in RequestedIds : StatTestProfile_create(cls, id)

SpecProfile == InitProfile /\ [][NextProfile]_vars

\* The profile factory under a file that changes between calls.
EditedFiles == {f \in ConfigFiles : WellFormed(f) /\ DOMAIN f \subseteq {"x2gof", "kstest"}}

NextRegistry ==
    \/ NextProfile
    \/ \E f \in EditedFiles : ConfigFile_edit(f)

SpecRegistry == InitProfile /\ [][NextRegistry]_vars

\* The runners under a file that changes during their life.
SparseFile == [id \in TestIds |-> RowSparse(id)]
RunnerEdits == RunnerFiles \cup {SparseFile}

NextRunnerRegistry ==
    \/ Next
    \/ \E f \in RunnerEdits : ConfigFile_edit(f)

SpecRunnerRegistry == Init /\ [][NextRunnerRegistry]_vars

(***************************************************************************)
(* The distribution generators: explorer/stats/generator.py (Generator)    *)
(* and explorer/stats/distribution.py (RVSDistribution).                   *)
(***************************************************************************)
\* DISTRIBUTIONS of generator.py: name -> scipy distribution
Generator_DISTRIBUTIONS ==
    {"normal", "chi2", "exponential", "gamma", "logistic", "uniform"}

\* Generator.__GENERATORS
Generator_GENERATORS ==
    {"normal", "chi2", "exponential", "gamma", "logistic", "uniform"}

\* DISTRIBUTIONS of distribution.py
RVSDistribution_DISTRIBUTIONS ==
    {"beta", "normal", "chi2", "exponential", "f", "gamma", "logistic", "lognorm",
     "pareto", "uniform", "weibull_min"}

\* The scipy name behind a key of DISTRIBUTIONS.
scipy_name(distribution) ==
    CASE distribution = "normal" -> "norm"
      [] distribution = "exponential" -> "expon"
      [] OTHER -> distribution

\* An array with a NaN in it carries the attribute nan.
isfinite(data) == "nan" \notin DOMAIN data

\* get_params: DISTRIBUTIONS[distribution].fit(data). The lookup raises
\* KeyError for a missing key; fit raises ValueError for non-finite data and
\* otherwise returns the parameters estimated from data.
get_params(distributions, data, distribution) ==
    IF distribution \notin distributions THEN Raise("KeyError")
    ELSE IF ~isfinite(data) THEN Raise("ValueError")
    ELSE [exc |-> "",
          params |-> [dist |-> scipy_name(distribution), loc |-> data.mean,
                      scale |-> data.std]]

\* stats.<dist>.rvs(*params, size=size): the draw-th sample of that size.
stats_rvs(params, size, draw) == [params |-> params, size |-> size, draw |-> draw]

\* (np.linspace(ppf(0.01), ppf(0.99), num=len(data)), stats.<dist>.pdf(x=data, *params))
stats_pdf(params, data) == [params |-> params, num |-> data.n, x |-> data]

\* normal, chi2, ... of generator.py: the random sample alone.
generator_function(data, distribution, draw) ==
    LET p == get_params(Generator_DISTRIBUTIONS, data, distribution)
    IN  IF p.exc # "" THEN p
        ELSE [exc |-> "", rvs |-> stats_rvs(p.params, data.n, draw)]

\* beta, normal, chi2, ... of distribution.py: the random sample and the curve.
distribution_function(data, distribution, draw) ==
    LET p == get_params(RVSDistribution_DISTRIBUTIONS, data, distribution)
    IN  IF p.exc # "" THEN p
        ELSE [exc |-> "", rvs |-> stats_rvs(p.params, data.n, draw),
              pdf |-> stats_pdf(p.params, data)]

not_supported(distribution) == <<distribution, " is not supported.">>

GeneratorResult(e, self, logged, returned) ==
    [exc |-> e, self |-> self, logged |-> logged, returned |-> returned]

\* Generator.__call__ with the KeyError handler left out.
Generator__call__unhandled(self, data, distribution, draw) ==
    LET r == IF distribution \notin Generator_GENERATORS THEN Raise("KeyError")
             ELSE generator_function(data, distribution, draw)
    IN  IF r.exc # "" THEN GeneratorResult(r.exc, self, <<>>, None)
        ELSE GeneratorResult("", self, <<>>, Some(r.rvs))

\* Generator.__call__
Generator__call__(self, data, distribution, draw) ==
    LET r == IF distribution \notin Generator_GENERATORS THEN Raise("KeyError")
             ELSE generator_function(data, distribution, draw)
    IN  IF r.exc = "KeyError"
        THEN GeneratorResult("NotImplementedError", self,
                             <<LogRecord(self, "debug", not_supported(distribution))>>,
                             None)
        ELSE IF r.exc # "" THEN GeneratorResult(r.exc, self, <<>>, None)
        ELSE GeneratorResult("", self, <<>>, Some(r.rvs))

\* RVSDistribution.__init__
RVSDistribution__init__ ==
    [class |-> "RVSDistribution", rvs |-> None, pdf |-> None, distribution |-> None]

\* RVSDistribution.__call__ with the KeyError handler left out.
RVSDistribution__call__unhandled(self, data, distribution, draw) ==
    LET self1 == With(With(self, "data", Some(data)), "distribution", Some(distribution))
        r == IF distribution \notin GENERATORS THEN Raise("KeyError")
             ELSE distribution_function(data, distribution, draw)
    IN  IF r.exc # "" THEN GeneratorResult(r.exc, self1, <<>>, None)
        ELSE GeneratorResult("", With(With(self1, "rvs", Some(r.rvs)), "pdf", Some(r.pdf)),
                             <<>>, None)

\* RVSDistribution.__call__: the data and the name are stored before the
\* lookup; the sample and the curve are stored only when it succeeds. The
\* method has no return statement.
RVSDistribution__call__(self, data, distribution, draw) ==
    LET self1 == With(With(self, "data", Some(data)), "distribution", Some(distribution))
        r == IF distribution \notin GENERATORS THEN Raise("KeyError")
             ELSE distribution_function(data, distribution, draw)
    IN  IF r.exc = "KeyError"
        THEN GeneratorResult("NotImplementedError", self1,
                             <<LogRecord(self1, "debug", not_supported(distribution))>>,
                             None)
        ELSE IF r.exc # "" THEN GeneratorResult(r.exc, self1, <<>>, None)
        ELSE GeneratorResult("", With(With(self1, "rvs", Some(r.rvs)), "pdf", Some(r.pdf)),
                             <<>>, None)

\* Inputs of the generators.
Arrays == {Sample(30), Sample(100), [n |-> 30, nan |-> TRUE]}
DistributionNames == {"normal", "beta", "fake"}
Draws == {1, 2}

Generated(data, distribution, r) ==
    /\ generator' = Some(r.self)
    /\ log' = log \o r.logged
    /\ last' = [op |-> "__call__", exc |-> r.exc, args |-> <<data, distribution>>,
                returned |-> r.returned]
    /\ nruns' = nruns + 1
    /\ nok' = IF r.exc = "" THEN nok + 1 ELSE nok
    /\ UNCHANGED <<file, lib, runner, created, reads, previous>>
    /\ UNCHANGED plot_vars
    /\ UNCHANGED aux_vars

\* Generator()
Generator_init ==
    /\ generator = None
    /\ generator' = Some([class |-> "Generator"])
    /\ last' = [op |-> "__init__", exc |-> "", args |-> <<>>]
    /\ UNCHANGED <<file, lib, runner, log, nruns, nok, created, reads, previous>>
    /\ UNCHANGED plot_vars
    /\ UNCHANGED aux_vars

\* RVSDistribution()
RVSDistribution_init ==
    /\ generator = None
    /\ generator' = Some(RVSDistribution__init__)
    /\ last' = [op |-> "__init__", exc |-> "", args |-> <<>>]
    /\ UNCHANGED <<file, lib, runner, log, nruns, nok, created, reads, previous>>
    /\ UNCHANGED plot_vars
    /\ UNCHANGED aux_vars

IsGenerator(class) == generator # None /\ generator[1].class = class /\ nruns < MaxRuns

Generator_call(data, distribution) ==
    /\ IsGenerator("Generator")
    /\ \E draw \in Draws :
         Generated(data, distribution, Generator__call__(generator[1], data, distribution, draw))

RVSDistribution_call_call(data, distribution) ==
    /\ IsGenerator("RVSDistribution")
    /\ \E draw \in Draws :
         Generated(data, distribution,
                   RVSDistribution__call__(generator[1], data, distribution, draw))

NextGenerator ==
    \/ Generator_init
    \/ RVSDistribution_init
    \/ \E data \in Arrays, distribution \in DistributionNames :
         Generator_call(data, distribution)
    \/ \E data \in Arrays, distribution \in DistributionNames :
         RVSDistribution_call_call(data, distribution)

InitGenerator ==
    /\ generator = None
    /\ AuxInit
    /\ last = NoCall
    /\ log = <<>>
    /\ nruns = 0
    /\ nok = 0
    /\ file = FullFile
    /\ lib = Raise("ValueError")
    /\ runner = None
    /\ created = None
    /\ obj = None
    /\ axes = <<>>
    /\ nplots = 0
    /\ reads = 0
    /\ previous = None

SpecGenerator == InitGenerator /\ [][NextGenerator]_vars

(***************************************************************************)
(* Univariate analysis of a categorical variable: explorer/univariate.py   *)
(* (CategoricalOne) and explorer/analysis/univariate.py (QualitativeOne).  *)
(* A pandas Series is a sequence of items, each a label and a value; a     *)
(* label is the pair of its Python type and its text.                      *)
(***************************************************************************)
IntLabel(i) == <<"int", ToString(i)>>
StrLabel(text) == <<"str", text>>
Item(label, value) == [label |-> label, value |-> value]

Series_index(series) == [i \in 1..Len(series) |-> series[i].label]
Series_values(series) == [i \in 1..Len(series) |-> series[i].value]

\* The order Python gives the labels of one type, smallest first.
LabelOrder == <<"0", "1", "2", "high", "low", "medium">>
rank(label) == CHOOSE i \in 1..Len(LabelOrder) : LabelOrder[i] = label[2]

\* Index.sort_values(): labels of different types cannot be compared.
Index_sort_values(idx) ==
    IF \E i, j \in 1..Len(idx) : idx[i][1] # idx[j][1] THEN Raise("TypeError")
    ELSE [exc |-> "", value |-> SortSeq(idx, LAMBDA a, b : rank(a) < rank(b))]

\* Series.sort_index(ascending=True, inplace=True)
Series_sort_index(series) ==
    SortSeq(series, LAMBDA a, b : rank(a.label) < rank(b.label))

\* pd.Series(expected) for an expected that is no Series: a dict keeps its
\* keys as labels, a list is labelled by position, a scalar gets label 0.
pd_Series(expected) ==
    CASE expected.kind = "dict" -> expected.items
      [] expected.kind = "list" ->
            [i \in 1..Len(expected.values) |-> Item(IntLabel(i - 1), expected.values[i])]
      [] OTHER -> <<Item(IntLabel(0), expected.value)>>

\* The abstract methods Analysis declares (explorer/base.py).
Analysis_abstractmethods == {"describe"}

\* The methods each class defines.
Methods(class) ==
    IF class = "CategoricalOne"
    THEN {"__init__", "frequency", "test_distribution", "plot_distribution", "_valsort"}
    ELSE IF class = "QuantitativeOne"
    THEN {"__init__", "describe", "test_distribution", "plot_distribution", "gofplot",
          "qqplot", "cdfplot", "boxplot", "_chisq", "_normaltest", "_shapiro_wilk",
          "_kstest"}
    ELSE {"__init__", "describe", "frequency", "test_distribution", "plot_distribution",
          "_valsort"}

\* The names explorer/stats/distribution.py defines.
distribution_names ==
    {"logger", "DISTRIBUTIONS", "beta", "normal", "chi2", "exponential", "f", "gamma",
     "logistic", "lognorm", "pareto", "uniform", "weibull", "get_params",
     "RVSDistribution"}

\* The names the module of each class imports from explorer.stats.distribution.
Imports(class) ==
    IF class \in {"QualitativeOne", "QuantitativeOne"} THEN {"DISTRIBUTIONS", "DistGen"}
    ELSE {}

\* class(data=data): the module of the class is imported, then ABCMeta
\* refuses a class that leaves an abstract method undefined.
Analysis_new(class, data) ==
    IF ~(Imports(class) \subseteq distribution_names) THEN Raise("ImportError")
    ELSE IF Analysis_abstractmethods \ Methods(class) # {} THEN Raise("TypeError")
    ELSE [exc |-> "", self |-> [class |-> class, data |-> data]]

AnalysisResult(e, logged, returned) ==
    [exc |-> e, logged |-> logged, returned |-> returned]

category_mismatch == "Categories in observed and expected do not match."

\* CategoricalOne._valsort / QualitativeOne._valsort
valsort(self, observed, expected) ==
    LET expected1 == IF expected.kind = "Series" THEN expected.items
                     ELSE pd_Series(expected)
        observed_categories == Index_sort_values(Series_index(observed))
        expected_categories == Index_sort_values(Series_index(expected1))
    IN  IF observed_categories.exc # ""
        THEN AnalysisResult(observed_categories.exc, <<>>, None)
        ELSE IF expected_categories.exc # ""
        THEN AnalysisResult(expected_categories.exc, <<>>, None)
        ELSE IF observed_categories.value # expected_categories.value
        THEN AnalysisResult("ValueError", <<LogRecord(self, "ERROR", category_mismatch)>>,
                            None)
        ELSE AnalysisResult("", <<>>, Some(<<Series_sort_index(observed),
                                              Series_sort_index(expected1)>>))

\* CategoricalOne.test_distribution / QualitativeOne.test_distribution;
\* self.data[name] is the column's value_counts(sort=False).
test_distribution(self, name, expected, answer) ==
    IF name \notin DOMAIN self.data
    THEN AnalysisResult("KeyError",
                        <<LogRecord(self, "ERROR", <<"Data has no attribute ", name, ".">>)>>,
                        None)
    ELSE
    LET observed == self.data[name]
        sorted == IF expected = None THEN AnalysisResult("", <<>>, Some(<<observed>>))
                  ELSE valsort(self, observed, expected)
    IN  IF sorted.exc # "" THEN sorted
        ELSE
        LET r == IF expected = None
                 THEN stats_chisquare(Series_values(sorted.returned[1][1]), None, answer)
                 ELSE stats_chisquare(Series_values(sorted.returned[1][1]),
                                      Some(Series_values(sorted.returned[1][2])), answer)
        IN  IF r.exc # "" THEN AnalysisResult(r.exc, <<>>, None)
            ELSE AnalysisResult("", <<>>,
                     Some([class |-> "StatTestOne", analyzer |-> self.class,
                           test |-> "Chi-Square Goodness of Fit", x |-> name,
                           statistic |-> r.statistic, pvalue |-> r.pvalue]))

\* Inputs of the analysis.
Dataset ==
    [educ |-> <<Item(StrLabel("medium"), 30), Item(StrLabel("high"), 50),
                Item(StrLabel("low"), 20)>>,
     children |-> <<Item(IntLabel(1), 40), Item(IntLabel(0), 60)>>]

VariableNames == {"educ", "children", "age"}

ExpectedFrequencies ==
    {None,
     [kind |-> "Series", items |-> <<Item(StrLabel("high"), 222)>>],
     [kind |-> "Series", items |-> <<Item(StrLabel("high"), 40), Item(StrLabel("low"), 30),
                                     Item(StrLabel("medium"), 30)>>],
     [kind |-> "Series", items |-> <<Item(StrLabel("low"), 30), Item(StrLabel("low"), 30),
                                     Item(StrLabel("high"), 20), Item(StrLabel("medium"), 20)>>],
     [kind |-> "str", value |-> "string of some sort"],
     [kind |-> "list", values |-> <<50, 50>>],
     [kind |-> "list", values |-> <<40, 30, 30>>],
     [kind |-> "dict", items |-> <<Item(StrLabel("low"), 30), Item(StrLabel("high"), 40),
                                   Item(StrLabel("medium"), 30)>>],
     [kind |-> "dict", items |-> <<Item(StrLabel("high"), 222), Item(IntLabel(1), 100)>>]}

AnalysisClasses == {"CategoricalOne", "QualitativeOne"}

\* class(data=data).test_distribution(name=name, expected=expected)
test_distribution_call(class, data, name, expected) ==
    /\ nruns < MaxRuns
    /\ LET a == Analysis_new(class, data)
           r == IF a.exc # "" THEN AnalysisResult(a.exc, <<>>, None)
                ELSE test_distribution(a.self, name, expected, lib)
       IN  /\ last' = [op |-> "test_distribution", exc |-> r.exc,
                       args |-> <<class, data, name, expected>>,
                       returned |-> r.returned]
           /\ log' = log \o r.logged
           /\ nruns' = nruns + 1
           /\ nok' = IF r.exc = "" THEN nok + 1 ELSE nok
    /\ UNCHANGED <<file, runner, lib, created, reads, previous, generator, aux_vars>>
    /\ UNCHANGED plot_vars

\* ---- QuantitativeOne (explorer/analysis/univariate.py) ----
\* StatTestOneGoF(analyzer=..., test=..., distribution=..., statistic=...,
\* pvalue=..., x=...); method keeps its default unless given.
StatTestOneGoF(self, test, distribution, method, answer, x) ==
    [class |-> "StatTestOneGoF", analyzer |-> self.class, test |-> test,
     distribution |-> distribution, method |-> method,
     statistic |-> answer.statistic, pvalue |-> answer.pvalue, x |-> x]

\* _shapiro_wilk: stats.shapiro and the result
QuantitativeOne_shapiro_wilk(self, name, answer) ==
    IF answer.exc # "" THEN AnalysisResult(answer.exc, <<>>, None)
    ELSE AnalysisResult("", <<>>,
             Some(StatTestOneGoF(self, "Shapiro-Wilk Test for Normality", "normal",
                                 "approx", NonNegative(answer), name)))

\* The parameters of _chisq that have no default, and the keywords
\* test_distribution calls it with.
QuantitativeOne_chisq_parameters == {"name", "distribution", "kwargs"}
QuantitativeOne_chisq_keywords == {"name", "distribution"}

\* The distributions whose cdf takes no shape parameter.
NoShapeParameters == {"normal", "exponential", "logistic", "uniform"}

\* _kstest: the key is looked up in DISTRIBUTIONS, the cdf is called by
\* stats.kstest with the data alone, the debug record follows.
QuantitativeOne_kstest(self, name, distribution, approx, answer) ==
    IF distribution \notin DISTRIBUTIONS THEN AnalysisResult("KeyError", <<>>, None)
    ELSE IF distribution \notin NoShapeParameters
    THEN AnalysisResult("TypeError", <<>>, None)
    ELSE IF answer.exc # "" THEN AnalysisResult(answer.exc, <<>>, None)
    ELSE AnalysisResult("", <<LogRecord(self, "DEBUG", <<"KSTest">>)>>,
             Some(StatTestOneGoF(self, "Kolmogorov-Smirnov Goodness-of-Fit", distribution,
                                 IF approx THEN "approx" ELSE "exact",
                                 NonNegative(answer), name)))

\* QuantitativeOne.test_distribution.  The call of _chisq leaves out kwargs,
\* which _chisq requires: Python raises TypeError before the body runs.
QuantitativeOne_test_distribution(self, name, distribution, approx, discrete, answer) ==
    IF name \notin self.data.columns
    THEN AnalysisResult("KeyError",
                        <<LogRecord(self, "ERROR", <<"Data has no attribute ", name, ".">>)>>,
                        None)
    ELSE IF distribution = "normal" /\ self.data.nrows < 50
    THEN QuantitativeOne_shapiro_wilk(self, name, answer)
    ELSE IF discrete
    THEN IF QuantitativeOne_chisq_parameters \subseteq QuantitativeOne_chisq_keywords
         THEN AnalysisResult("", <<>>, None)
         ELSE AnalysisResult("TypeError", <<>>, None)
    ELSE QuantitativeOne_kstest(self, name, distribution, approx, answer)

\* DataFrames of quantitative columns, by their number of rows.
Frame(nrows) == [nrows |-> nrows, columns |-> {"Income", "Age"}]
Frames == {Frame(30), Frame(49), Frame(50), Frame(100)}
TestedDistributions == {"normal", "exponential", "gamma", "fake"}

\* QuantitativeOne(data=data).test_distribution(name=name, distribution=...,
\* approx=..., discrete=...)
QuantitativeOne_test_distribution_call(data, name, distribution, approx, discrete) ==
    /\ nruns < MaxRuns
    /\ LET a == Analysis_new("QuantitativeOne", data)
           r == IF a.exc # "" THEN AnalysisResult(a.exc, <<>>, None)
                ELSE QuantitativeOne_test_distribution(a.self, name, distribution, approx,
                                                       discrete, lib)
       IN  /\ last' = [op |-> "test_distribution", exc |-> r.exc,
                       args |-> <<"QuantitativeOne", data, name, distribution, approx,
                                  discrete>>,
                       returned |-> r.returned]
           /\ log' = log \o r.logged
           /\ nruns' = nruns + 1
           /\ nok' = IF r.exc = "" THEN nok + 1 ELSE nok
    /\ UNCHANGED <<file, runner, lib, created, reads, previous, generator, aux_vars>>
    /\ UNCHANGED plot_vars

InitAnalysis ==
    /\ lib \in LibAnswers
    /\ last = NoCall
    /\ log = <<>>
    /\ nruns = 0
    /\ nok = 0
    /\ file = FullFile
    /\ runner = None
    /\ created = None
    /\ obj = None
    /\ axes = <<>>
    /\ nplots = 0
    /\ reads = 0
    /\ previous = None
    /\ generator = None
    /\ AuxInit

NextAnalysis ==
    \/ \E class \in AnalysisClasses, name \in VariableNames,
          expected \in ExpectedFrequencies :
            test_distribution_call(class, Dataset, name, expected)
    \/ \E data \in Frames, name \in {"Income", "Height"},
          distribution \in TestedDistributions, approx \in BOOLEAN, discrete \in BOOLEAN :
            QuantitativeOne_test_distribution_call(data, name, distribution, approx,
                                                   discrete)

SpecAnalysis == InitAnalysis /\ [][NextAnalysis]_vars

(***************************************************************************)
(* Dataset (edation/data/base.py): tabular data and the selection of       *)
(* columns.  A DataFrame is the sequence of its column names.              *)
(***************************************************************************)
\* col in a_list
In(col, a_list) == \E i \in 1..Len(a_list) : a_list[i] = col

\* [col for col in columns if keep(col)]
Comprehension(columns, keep(_)) == SelectSeq(columns, keep)

\* A plausible slip: include is tested before exclude.
Dataset_select_include_first(self, include, exclude) ==
    IF include # None
    THEN Comprehension(self.df, LAMBDA col : In(col, include[1]))
    ELSE IF exclude # None
    THEN Comprehension(self.df, LAMBDA col : ~In(col, exclude[1]))
    ELSE self.df

\* Dataset.select: the columns of self._df[cols]
Dataset_select(self, include, exclude) ==
    IF exclude # None
    THEN Comprehension(self.df, LAMBDA col : ~In(col, exclude[1]))
    ELSE IF include # None
    THEN Comprehension(self.df, LAMBDA col : In(col, include[1]))
    ELSE self.df

\* Inputs of the dataset.
DataFrames ==
    {<<"Gender", "Age", "Education", "Income">>, <<"Income", "Gender">>, <<>>}

ColumnLists ==
    {None, Some(<<>>), Some(<<"Gender">>), Some(<<"Gender", "Education">>),
     Some(<<"Education", "Gender">>), Some(<<"Income", "Height">>),
     Some(<<"Height">>), Some(<<"Age", "Age">>)}

\* A concrete Dataset(df=df)
Dataset_init(df) ==
    /\ dataset = None
    /\ dataset' = Some([class |-> "Dataset", df |-> df])
    /\ last' = [op |-> "__init__", exc |-> "", args |-> <<df>>]
    /\ UNCHANGED <<file, lib, runner, log, nruns, nok, created, reads, previous, generator>>
    /\ UNCHANGED plot_vars
    /\ UNCHANGED <<idfile, idgens, handed>>

Dataset_select_call(include, exclude) ==
    /\ dataset # None
    /\ last' = [op |-> "select", exc |-> "", args |-> <<include, exclude>>,
                returned |-> Some(Dataset_select(dataset[1], include, exclude))]
    /\ UNCHANGED <<file, lib, runner, log, nruns, nok, created, reads, previous, generator>>
    /\ UNCHANGED plot_vars
    /\ UNCHANGED <<dataset, idfile, idgens, handed>>

InitDataset ==
    /\ dataset = None
    /\ last = NoCall
    /\ log = <<>>
    /\ nruns = 0
    /\ nok = 0
    /\ lib = Raise("ValueError")
    /\ file = FullFile
    /\ runner = None
    /\ created = None
    /\ obj = None
    /\ axes = <<>>
    /\ nplots = 0
    /\ reads = 0
    /\ previous = None
    /\ generator = None
    /\ idfile = None
    /\ idgens = [g \in IdGens |-> Unborn]
    /\ handed = <<>>

NextDataset ==
    \/ \E df \in DataFrames : Dataset_init(df)
    \/ \E include \in ColumnLists, exclude \in ColumnLists :
         Dataset_select_call(include, exclude)

SpecDataset == InitDataset /\ [][NextDataset]_vars

(***************************************************************************)
(* explorer/service/identity.py: RandomIDGen.  An id is text, kept here as *)
(* the tuple of its decimal digits.  __next__ opens the shelve file twice  *)
(* (load, save) and loops in between, so it is modelled in steps: pc says  *)
(* where the call is, and since how many ids had been handed out for the   *)
(* file when the call started (kept for the properties only).              *)
(***************************************************************************)
RECURSIVE str_int(_)
str_int(n) == IF n < 10 THEN <<n>> ELSE Append(str_int(n \div 10), n % 10)

RECURSIVE zfill(_, _)
zfill(text, width) ==
    IF Len(text) >= width THEN text ELSE zfill(<<0>> \o text, width)

\* random.randint(a, b): both ends are included.
randint(a, b) == a..b

RandomIDGen__init__(size) ==
    [pc |-> "idle", n |-> 0, size |-> size, idlist |-> <<>>,
     max |-> 10 ^ size, id |-> None, since |-> 0]

\* RandomIDGen.load: the outcome of reading the idlist from the shelve file.
RandomIDGen_load(self, db) ==
    IF db = None
    THEN [exc |-> "KeyError", self |-> self,
          logged |-> <<[logger |-> "RandomIDGen", level |-> "error",
                        msg |-> "Id List not found."]>>]
    ELSE [exc |-> "", self |-> With(self, "idlist", db[1]), logged |-> <<>>]

\* RandomIDGen.save: what the shelve file holds afterwards.
RandomIDGen_save(self) == Some(self.idlist)

\* The candidate of one turn of the loop in __next__.
candidate(self, drawn) == zfill(str_int(drawn), self.size)

Sizes == {1, 2}

\* The draws taken for an instance: all of randint's range for one digit,
\* both ends and two inner values of it for more.
Drawn(self) ==
    IF self.size = 1 THEN randint(0, self.max)
    ELSE {d \in randint(0, self.max) : d \in {0, 7, self.max - 1, self.max}}

\* Every id an instance of this size can produce.
AllIds(size) ==
    [i \in 1..(10 ^ size + 1) |-> zfill(str_int(i - 1), size)]

\* The shelve file at the start: without an idlist, or with the idlist an
\* earlier program left.
IdFiles == {None, Some(AllIds(1))}

Born(g) == idgens[g].pc # "unborn"
Idle(g) == idgens[g].pc = "idle"
\* No other instance is inside a call.
Alone(g) == \A h \in IdGens \ {g} : idgens[h].pc \in {"unborn", "idle"}

id_unchanged == UNCHANGED <<file, lib, runner, nok, created, reads, previous,
                            generator, dataset>> /\ UNCHANGED plot_vars

\* RandomIDGen(filepath, size)
RandomIDGen_init(g, size) ==
    /\ ~Born(g)
    /\ idgens' = [idgens EXCEPT ![g] = RandomIDGen__init__(size)]
    /\ last' = [op |-> "__init__", exc |-> "", args |-> <<g, size>>]
    /\ UNCHANGED <<idfile, handed, log, nruns>>
    /\ id_unchanged

\* iter(g)
RandomIDGen_iter(g) ==
    /\ Idle(g)
    /\ idfile' = RandomIDGen_save(idgens[g])
    /\ last' = [op |-> "__iter__", exc |-> "", args |-> <<g>>]
    /\ UNCHANGED <<idgens, handed, log, nruns>>
    /\ id_unchanged

\* next(g), up to the call of load
RandomIDGen_next(g) ==
    /\ Idle(g)
    /\ nruns < MaxNext
    /\ nruns' = nruns + 1
    /\ IF idgens[g].n > idgens[g].max
       THEN /\ last' = [op |-> "__next__", exc |-> "StopIteration", args |-> <<g>>]
            /\ UNCHANGED idgens
       ELSE /\ idgens' = [idgens EXCEPT ![g] =
                    With(With(idgens[g], "since", Len(handed)), "pc", "load")]
            /\ UNCHANGED last
    /\ UNCHANGED <<idfile, handed, log>>
    /\ id_unchanged

\* next(g): self.load()
RandomIDGen_next_load(g) ==
    /\ idgens[g].pc = "load"
    /\ LET r == RandomIDGen_load(idgens[g], idfile) IN
        /\ log' = log \o r.logged
        /\ IF r.exc # ""
           THEN /\ idgens' = [idgens EXCEPT ![g].pc = "idle"]
                /\ last' = [op |-> "__next__", exc |-> r.exc, args |-> <<g>>]
           ELSE /\ idgens' = [idgens EXCEPT ![g] = With(r.self, "pc", "loop")]
                /\ UNCHANGED last
    /\ UNCHANGED <<idfile, handed, nruns>>
    /\ id_unchanged

\* next(g): one turn of the while loop, up to the call of save
RandomIDGen_next_loop(g, drawn) ==
    /\ idgens[g].pc = "loop"
    /\ LET self == idgens[g]
           id == candidate(self, drawn) IN
        IF ~In(id, self.idlist)
        THEN idgens' = [idgens EXCEPT ![g] =
                 With(With(With(self, "id", Some(id)),
                           "idlist", Append(self.idlist, id)), "pc", "save")]
        ELSE idgens' = [idgens EXCEPT ![g] = With(self, "id", Some(id))]
    /\ UNCHANGED <<idfile, handed, log, last, nruns>>
    /\ id_unchanged

\* next(g): self.save(), the count and the return
RandomIDGen_next_save(g) ==
    /\ idgens[g].pc = "save"
    /\ idfile' = RandomIDGen_save(idgens[g])
    /\ idgens' = [idgens EXCEPT ![g] =
           With(With(idgens[g], "n", idgens[g].n + 1), "pc", "idle")]
    /\ last' = [op |-> "__next__", exc |-> "", args |-> <<g>>,
                returned |-> idgens[g].id[1]]
    /\ handed' = Append(handed, idgens[g].id[1])
    /\ UNCHANGED <<log, nruns>>
    /\ id_unchanged

InitIDGen ==
    /\ idfile \in IdFiles
    /\ idgens = [g \in IdGens |-> Unborn]
    /\ handed = IF idfile = None THEN <<>> ELSE idfile[1]
    /\ dataset = None
    /\ last = NoCall
    /\ log = <<>>
    /\ nruns = 0
    /\ nok = 0
    /\ lib = Raise("ValueError")
    /\ file = FullFile
    /\ runner = None
    /\ created = None
    /\ obj = None
    /\ axes = <<>>
    /\ nplots = 0
    /\ reads = 0
    /\ previous = None
    /\ generator = None

\* One step of instance g.
RandomIDGen_step(g) ==
    \/ \E size \in Sizes : RandomIDGen_init(g, size)
    \/ RandomIDGen_iter(g)
    \/ RandomIDGen_next(g)
    \/ RandomIDGen_next_load(g)
    \/ Born(g) /\ \E drawn \in Drawn(idgens[g]) : RandomIDGen_next_loop(g, drawn)
    \/ RandomIDGen_next_save(g)

\* The instances are used one after another: a call ends before the next
\* one starts.
NextIDGen == \E g \in IdGens : Alone(g) /\ RandomIDGen_step(g)

SpecIDGen == InitIDGen /\ [][NextIDGen]_vars

\* A call that has started goes on, and in the loop every value randint can
\* give is drawn again and again.
FairIDGen ==
    \A g \in IdGens :
        /\ WF_vars(Alone(g) /\ RandomIDGen_next_load(g))
        /\ WF_vars(Alone(g) /\ RandomIDGen_next_save(g))
        /\ \A drawn \in randint(0, 10 ^ 2) :
              WF_vars(/\ Alone(g) /\ Born(g) /\ drawn \in Drawn(idgens[g])
                      /\ RandomIDGen_next_loop(g, drawn))

SpecIDGenFair == InitIDGen /\ [][NextIDGen]_vars /\ FairIDGen

\* The instances are used by two threads or programs at once: the steps of
\* their calls interleave.
NextIDGenOverlap == \E g \in IdGens : RandomIDGen_step(g)

SpecIDGenOverlap == InitIDGen /\ [][NextIDGenOverlap]_vars

(***************************************************************************)
(* Properties of the test runners.                                         *)
(***************************************************************************)
\* A step that is one run/__call__ of the runner.
RunStep == nruns' = nruns + 1

HasResult == runner # None /\ runner[1].result # None
TheResult == runner[1].result[1]

\* The numeric fields of a result record.
Numeric(res) ==
    [value |-> res.value, pvalue |-> res.pvalue,
     dof |-> IF "dof" \in DOMAIN res THEN Some(res.dof) ELSE None]

\* C1: a run/__call__ that follows a successful one with the same arguments
\* (and a library that answers by its arguments alone, which leaves out the
\* Monte Carlo runner) succeeds too, and the result it stores has the same
\* value, pvalue and dof as the result of the call before.
C1_RunTwiceSameNumbers ==
    [][(/\ RunStep
        /\ nruns >= 1
        /\ last.exc = ""
        /\ last'.args = last.args
        /\ runner[1].class # "KSOneTest")
       => /\ last'.exc = ""
          /\ Numeric(runner'[1].result[1]) = Numeric(TheResult)]_vars

\* C2: a run/__call__ leaves every attribute the runner had before the call,
\* other than result, with the value it had.
C2_RunChangesOnlyResult ==
    [][RunStep =>
         \A k \in DOMAIN runner[1] \ {"result"} :
            k \in DOMAIN runner'[1] /\ runner'[1][k] = runner[1][k]]_vars

\* The pieces of text that only the fail-to-reject sentences hold, and those
\* that only the reject sentences hold.
FailToRejectPieces ==
    {"%; therefore, the null hypothesis is not rejected. ",
     "; therefore, the null hypothesis is not rejected. ",
     "% indicating that the correlation coefficient is not statistically significant."}

RejectPieces ==
    {"%; therefore, the null hypothesis is rejected. ",
     "; therefore, the null hypothesis is rejected. ",
     "% indicating that the correlation coefficient is statistically significant."}

Says(text, pieces) == \E i \in 1..Len(text) : text[i] \in pieces

\* C4: the inference stored in a result is a fail-to-reject sentence exactly
\* when the result's pvalue is greater than the result's alpha, and a reject
\* sentence exactly when it is not (pvalue equal to alpha included); it is
\* never both.
C4_InferenceFollowsPvalue ==
    HasResult =>
        /\ Says(TheResult.inference, FailToRejectPieces)
              <=> TheResult.pvalue > TheResult.alpha
        /\ Says(TheResult.inference, RejectPieces)
              <=> ~ (TheResult.pvalue > TheResult.alpha)

\* C4 witness: a result whose pvalue equals its alpha, with a reject sentence.
C4_Witness_PvalueEqualsAlpha ==
    /\ HasResult
    /\ TheResult.pvalue = TheResult.alpha
    /\ Says(TheResult.inference, RejectPieces)

\* The fields every result record carries.
CommonResultFields ==
    {"test", "H0", "statistic", "hypothesis", "value", "pvalue", "inference",
     "alpha", "result"}

\* C5: a run/__call__ that raises leaves the result as it was before the call;
\* one that returns has stored a record with every field, made from this call:
\* its alpha is the runner's, and data given with the call is the data in it.
C5_RaiseOrWholeResult ==
    [][RunStep =>
         IF last'.exc # ""
         THEN runner'[1].result = runner[1].result
         ELSE /\ runner'[1].result # None
              /\ CommonResultFields \subseteq DOMAIN runner'[1].result[1]
              /\ runner'[1].result[1].alpha = runner[1].alpha
              /\ last'.args # <<>> =>
                    /\ runner'[1].result[1].data = last'.args[1]
                    /\ runner'[1].result[1].reference_distribution = last'.args[2]]_vars

\* C5 witness: a chi-square run has raised after an earlier run had stored a
\* result, and the result is still there.
C5_Witness_RaiseKeepsResult ==
    /\ HasResult
    /\ runner[1].class = "ChiSquareTest"
    /\ last.exc # ""
    /\ nok >= 1

\* Whether the runner was given a reference-distribution name that is not
\* supported, by construction (KSTest) or with the call (KSOneTest).
UnsupportedName(self, args) ==
    \/ self.class = "KSTest" /\ IsStr(self.b) /\ self.b.str \notin ScipyDistributions
    \/ self.class = "KSOneTest" /\ args # <<>> /\ args[2] \notin DISTRIBUTIONS

\* C6: a run of a Kolmogorov-Smirnov runner with an unsupported distribution
\* name raises KeyError, and the logger has recorded an error during that run.
C6_UnsupportedNameLoggedKeyError ==
    [][(RunStep /\ UnsupportedName(runner[1], last'.args))
       => /\ last'.exc = "KeyError"
          /\ Len(log') > Len(log)
          /\ log'[Len(log')].level = "ERROR"]_vars

\* A step that is a call of a runner's run/__call__ or of its constructor,
\* which calls the profile factory.
CallStep == RunStep \/ (last.op = "none" /\ last'.op = "__init__")

\* C7: whenever a run or the profile factory raises, a logger has recorded an
\* error during that call.
C7_EveryFailureLogged ==
    [][(CallStep /\ last'.exc # "")
       => /\ Len(log') > Len(log)
          /\ log'[Len(log')].level = "ERROR"]_vars

\* C8: the result is None exactly as long as no run/__call__ has returned
\* normally.
C8_ResultNoneUntilFirstSuccess ==
    runner # None => (runner[1].result = None <=> nok = 0)

\* C8 witness: the first call raised, the second returned, and there is a
\* result.
C8_Witness_SuccessAfterFailure ==
    /\ HasResult
    /\ nruns = 2
    /\ nok = 1
    /\ last.exc = ""

(***************************************************************************)
(* Plots of a statistic beyond the rendered curve                          *)
(***************************************************************************)
StatisticAxes == IF obj.class = "KSTestResult" THEN axes.ax1 ELSE axes.ax
BeyondCurve ==
    LET xdata == lines(StatisticAxes)[1].x
    IN  \A i \in 1..Len(xdata) : obj.value > xdata[i]
CriticalValueAnnotations ==
    {i \in 1..Len(StatisticAxes) :
        /\ StatisticAxes[i].kind = "annotate"
        /\ StatisticAxes[i].label = <<"Critical Value">>}
StatisticMarkers ==
    {i \in 1..Len(StatisticAxes) : StatisticAxes[i].kind = "scatter"}

\* C3: after a plot of a result whose statistic is larger than every x of the
\* rendered curve, the plot has not raised, both critical-value annotations
\* are on the axes and the observed-statistic marker is not.
C3_BeyondCurveAnnotatedWithoutMarker ==
    (last.op = "plot" /\ BeyondCurve) =>
        /\ last.exc = ""
        /\ Cardinality(CriticalValueAnnotations) >= 2
        /\ StatisticMarkers = {}

(***************************************************************************)
(* The profile factory                                                     *)
(***************************************************************************)
CreateCalled == last.op = "create"
CreateClass == last.args[1]
CreateId == last.args[2]

\* C9: create(id) for an id the file holds returns a profile of the class it
\* was called on whose id is the requested id, whose every other declared
\* field has the value of the id's row, and which has no attribute for a row
\* key its class does not declare.
C9_CreateMatchesRow ==
    (CreateCalled /\ CreateId \in DOMAIN file) =>
        /\ created.exc = ""
        /\ created.value.cls = CreateClass
        /\ DOMAIN created.value.attrs = fields(CreateClass)
        /\ created.value.attrs["id"] = Some(CreateId)
        /\ \A k \in (fields(CreateClass) \ {"id"}) \cap DOMAIN file[CreateId] :
               created.value.attrs[k] = file[CreateId][k]

\* C9 witness: a profile with one variable type was created from a row that
\* has keys the class does not declare and an "id" of its own.
C9_Witness_UndeclaredKeysDropped ==
    /\ CreateCalled
    /\ CreateId \in DOMAIN file
    /\ CreateClass = "StatTestProfileOne"
    /\ {"notes", "Y_variable_type", "id"} \subseteq DOMAIN file[CreateId]
    /\ created.exc = ""
    /\ created.value.attrs["id"] = Some(CreateId)
    /\ created.value.attrs["X_variable_type"] = file[CreateId]["X_variable_type"]

\* C10: create(id) for an id the file does not hold raises KeyError and
\* returns no profile.
C10_AbsentIdRaisesKeyError ==
    (CreateCalled /\ CreateId \notin DOMAIN file) =>
        /\ created.exc = "KeyError"
        /\ "value" \notin DOMAIN created

\* C10 witness: a file that holds other ids was asked for one it lacks.
C10_Witness_AbsentIdRaised ==
    /\ CreateCalled
    /\ DOMAIN file # {}
    /\ CreateId \in FileIds \ DOMAIN file
    /\ created.exc = "KeyError"

(***************************************************************************)
(* The profile factory and a file that changes                             *)
(***************************************************************************)
\* A step in which the profile factory was called.
FactoryCalled == reads' # reads \/ previous' # previous

\* What a call create(cls, id) returns when it takes everything from f.
ReadFrom(f, cls, id, returned) ==
    IF id \in DOMAIN f
    THEN /\ returned.exc = ""
         /\ returned.value.cls = cls
         /\ returned.value.attrs["id"] = Some(id)
         /\ \A k \in fields(cls) \ {"id"} :
               returned.value.attrs[k] = IF k \in DOMAIN f[id] THEN f[id][k] ELSE None
    ELSE returned.exc = "KeyError"

\* C11: every call of create reads the file exactly once, leaves the file as
\* it is, and returns what the file holds at the time of the call, whatever
\* earlier calls returned.
C11_CreateReadsFileEachCall ==
    [][FactoryCalled =>
          /\ reads' = reads + 1
          /\ file' = file
          /\ ReadFrom(file, last'.args[1], last'.args[2], created')]_vars

\* C11 witness: two calls in a row with the same arguments returned different
\* profiles, the second one that of the file as it is now.
C11_Witness_ChangedRowReturned ==
    /\ CreateCalled
    /\ previous # None
    /\ previous[1].args = last.args
    /\ previous[1].returned.exc = ""
    /\ created.exc = ""
    /\ previous[1].returned.value # created.value
    /\ ReadFrom(file, CreateClass, CreateId, created)

(***************************************************************************)
(* The significance level of a result                                      *)
(***************************************************************************)
\* A step that constructs a runner.
Constructed == last.op = "none" /\ last'.op = "__init__" /\ runner' # None

\* C12: the alpha of every stored result lies strictly between 0 and 1; it is
\* the alpha the runner was constructed with, and that is 0.05 when the
\* caller gave none.
C12_AlphaIsSignificanceLevel ==
    /\ [](HasResult => (TheResult.alpha > 0 /\ TheResult.alpha < 1000))
    /\ [][(RunStep /\ last'.exc = "") =>
             runner'[1].result[1].alpha = runner[1].alpha]_vars
    /\ [][(Constructed /\ last'.args[1] = None) =>
             runner'[1].alpha = DefaultAlpha]_vars

(***************************************************************************)
(* Chi-square goodness of fit on [10, 20, 30, 40]                          *)
(***************************************************************************)
\* A run/__call__ of a chi-square goodness-of-fit runner on the observed
\* frequencies [10, 20, 30, 40] with no expected frequencies.
GoodnessOfFitStep ==
    /\ RunStep
    /\ \/ /\ runner[1].class = "ChiSquareTest"
          /\ runner[1].observed = <<10, 20, 30, 40>>
          /\ runner[1].expected = None
       \/ /\ runner[1].class = "ChiSquareGOFTest"
          /\ sort_index_values(last'.args[1]) = <<10, 20, 30, 40>>
          /\ last'.args[2] = None

\* C13: when the library's chisquare answers for these inputs, the run
\* stores a result whose dof is 3 and whose pvalue is the library's pvalue
\* as it was returned.
C13_GoodnessOfFitDofAndPvalue ==
    [][(GoodnessOfFitStep /\ lib.exc = "")
       => /\ last'.exc = ""
          /\ runner'[1].result # None
          /\ runner'[1].result[1].dof = 3
          /\ runner'[1].result[1].pvalue = lib.pvalue]_vars

(***************************************************************************)
(* Degrees of freedom                                                      *)
(***************************************************************************)
\* C14: the degrees of freedom of a stored result are the number of observed
\* categories minus 1 for the chi-square runner, n1 + n2 - 2 for the t-test
\* whether or not equal variances are assumed, and the number of rows minus 2
\* for the correlation test, whose result carries them in its text r(dof).
C14_DegreesOfFreedomByFamily ==
    HasResult =>
        /\ TheResult.class = "ChiSquareResult" =>
              TheResult.dof = Len(TheResult.observed) - 1
        /\ TheResult.class = "TTestResult" =>
              TheResult.dof = TheResult.x.n + TheResult.y.n - 2
        /\ TheResult.class = "PearsonCorrelationResult" =>
              /\ TheResult.result[1] = "Pearson Correlation Test\nr("
              /\ TheResult.result[2] = Str(TheResult.data[1].nrows - 2)

\* C14 witness: a t-test that does not assume equal variances, on samples of
\* 30 and 100, has stored 128 degrees of freedom.
C14_Witness_WelchTTestDof ==
    /\ HasResult
    /\ TheResult.class = "TTestResult"
    /\ ~ TheResult.homoscedastic
    /\ TheResult.x.n = 30
    /\ TheResult.y.n = 100
    /\ TheResult.dof = 128

(***************************************************************************)
(* Pearson correlation of columns on one line                              *)
(***************************************************************************)
\* Whether text holds the words as consecutive pieces.
Contains(text, words) ==
    \E i \in 1..(Len(text) - Len(words) + 1) :
        \A j \in 1..Len(words) : text[i + j - 1] = words[j]

VeryHighPositive == <<"very high ", "positive", " correlation.">>

\* C15: a correlation test on a = [1,2,3,4,5], b = [2,4,6,8,10] stores r = 1.0
\* and an inference that says "very high positive correlation"; both inference
\* templates say so for that r, whatever the pvalue and alpha.
C15_PerfectCorrelationVeryHigh ==
    (/\ HasResult
     /\ TheResult.class = "PearsonCorrelationResult"
     /\ TheResult.data[1].values[TheResult.a[1]] = <<1, 2, 3, 4, 5>>
     /\ TheResult.data[1].values[TheResult.b[1]] = <<2, 4, 6, 8, 10>>)
    => /\ TheResult.value = 1000
       /\ Contains(TheResult.inference, VeryHighPositive)
       /\ \A pvalue \in PValues \cup {0}, alpha \in {AlphaOf(arg) : arg \in AlphaArgs} :
             /\ Contains(Pearson_not_significant(TheResult.value, 3, pvalue, alpha),
                         VeryHighPositive)
             /\ Contains(Pearson_significant(TheResult.value, 3, pvalue, alpha),
                         VeryHighPositive)

\* C15 witness: the result of the test on these two columns.
C15_Witness_PerfectCorrelation ==
    /\ HasResult
    /\ TheResult.class = "PearsonCorrelationResult"
    /\ TheResult.a = Some("a")
    /\ TheResult.b = Some("b")
    /\ TheResult.value = 1000
    /\ Contains(TheResult.inference, VeryHighPositive)

(***************************************************************************)
(* Properties of the distribution generators.                              *)
(***************************************************************************)
GeneratorCalled == generator # None /\ last.op = "__call__"

\* The names the generator object has a generator function for.
Supported(g) == IF g.class = "Generator" THEN Generator_GENERATORS ELSE GENERATORS

\* C16: a call of the distribution generator with a name outside its
\* supported set ends in NotImplementedError and returns no value; a call
\* with a name inside the supported set never ends in NotImplementedError.
C16_UnsupportedNameNotImplemented ==
    GeneratorCalled =>
        LET distribution == last.args[2]
        IN  IF distribution \in Supported(generator[1])
            THEN last.exc # "NotImplementedError"
            ELSE last.exc = "NotImplementedError" /\ last.returned = None

\* "beta" is supported by RVSDistribution and not by Generator: the call
\* on Generator ended in NotImplementedError.
C16_Witness_BetaNotInGenerator ==
    /\ GeneratorCalled
    /\ generator[1].class = "Generator"
    /\ last.args[2] = "beta"
    /\ last.exc = "NotImplementedError"
    /\ last.returned = None

\* The sample or curve v was computed from data and the name distribution.
ComputedFrom(v, data, distribution) ==
    /\ isfinite(data)
    /\ distribution \in RVSDistribution_DISTRIBUTIONS
    /\ v.params = get_params(RVSDistribution_DISTRIBUTIONS, data, distribution).params

\* C17: after every call of RVSDistribution, failed or not, the data, the
\* distribution name, the random sample and the density curve it holds all
\* come from that call.
C17_GeneratorHoldsOnlyLastCall ==
    (GeneratorCalled /\ generator[1].class = "RVSDistribution") =>
        LET g == generator[1]
            data == last.args[1]
            distribution == last.args[2]
        IN  /\ g.data = Some(data)
            /\ g.distribution = Some(distribution)
            /\ g.rvs # None => ComputedFrom(g.rvs[1], data, distribution)
            /\ g.pdf # None => ComputedFrom(g.pdf[1], data, distribution)


(***************************************************************************)
(* The runner's profile                                                    *)
(***************************************************************************)
\* C18: a runner reads the registry once, when it is constructed; from then
\* on no step of the runner reads the registry again or changes a field of
\* the profile its accessor returns, whatever happens to the registry.
C18_ProfileLoadedOnceAtConstruction ==
    [][/\ (runner = None /\ runner' # None) => reads' = reads + 1
       /\ runner # None =>
            /\ runner' # None
            /\ runner'[1].profile = runner[1].profile
            /\ reads' = reads]_vars

\* The runner has run twice, its profile was read once, and the registry
\* row of its test now gives a different profile.
C18_Witness_RunsAfterRegistryChanged ==
    /\ runner # None
    /\ nruns >= 2
    /\ nok >= 1
    /\ reads = 1
    /\ LET p == runner[1].profile
           now == create(p.cls, p.attrs.id[1], file)
       IN  now.exc = "" /\ now.value # p

(***************************************************************************)
(* KSTest and a name the library does not know                             *)
(***************************************************************************)
FakeRun ==
    /\ runner # None
    /\ runner[1].class = "KSTest"
    /\ runner[1].b = [str |-> "fake"]
    /\ last.op = "run"

\* C19: run of a KSTest constructed with b = "fake", a string that names no
\* distribution of the statistics library, raises AttributeError.
C19_FakeDistributionAttributeError ==
    FakeRun => last.exc = "AttributeError"

\* KSTest(a, b="fake").run() was called and raised AttributeError; no result
\* was stored and nothing was logged.
C19_Witness_FakeRunRaised ==
    /\ FakeRun
    /\ last.exc = "AttributeError"
    /\ runner[1].result = None
    /\ log = <<>>

(***************************************************************************)
(* The categorical test of a frequency distribution                        *)
(***************************************************************************)
LabelsOf(series) == {series[i].label : i \in 1..Len(series)}

\* The labels of expected, taken as the Series the method makes of it.
ExpectedLabels(expected) ==
    LabelsOf(IF expected.kind = "Series" THEN expected.items ELSE pd_Series(expected))

\* test_distribution was called for a variable of the data with expected
\* frequencies whose labels are not those observed.
LabelMismatchCalled ==
    /\ last.op = "test_distribution"
    /\ last.args[3] \in DOMAIN last.args[2]
    /\ last.args[4] # None
    /\ ExpectedLabels(last.args[4]) # LabelsOf(last.args[2][last.args[3]])

\* C20: test_distribution of a categorical analysis, given expected
\* frequencies whose set of labels differs from the set observed in the data
\* (expected being a Series or not), raises ValueError and returns no result.
C20_LabelMismatchRaisesValueError ==
    LabelMismatchCalled => (last.exc = "ValueError" /\ last.returned = None)

(***************************************************************************)
(* Dataset.select                                                          *)
(***************************************************************************)
SelectCalled == dataset # None /\ last.op = "select"

\* The sequence sub keeps the order of the sequence seq and repeats nothing.
InOrderOf(sub, seq) ==
    \E f \in [1..Len(sub) -> 1..Len(seq)] :
        /\ \A i \in 1..Len(sub) : sub[i] = seq[f[i]]
        /\ \A i, j \in 1..Len(sub) : i < j => f[i] < f[j]

Elements(seq) == {seq[i] : i \in 1..Len(seq)}

\* C21: select returns, in the dataset's column order, the columns not named
\* in exclude when exclude is given (include is then ignored); otherwise the
\* columns named in include, names that are no columns being ignored; and
\* all columns when neither is given.  It never raises.
C21_SelectColumns ==
    SelectCalled =>
        LET df == dataset[1].df
            include == last.args[1]
            exclude == last.args[2]
            cols == last.returned[1]
        IN  /\ last.exc = ""
            /\ InOrderOf(cols, df)
            /\ Elements(cols) =
                 IF exclude # None THEN Elements(df) \ Elements(exclude[1])
                 ELSE IF include # None THEN Elements(df) \cap Elements(include[1])
                 ELSE Elements(df)

\* Both lists were given, include named a column that exclude did not, and
\* that column was returned all the same; another include name was no column.
C21_Witness_ExcludeOverridesInclude ==
    /\ SelectCalled
    /\ last.args = <<Some(<<"Income", "Height">>), Some(<<"Gender">>)>>
    /\ dataset[1].df = <<"Gender", "Age", "Education", "Income">>
    /\ last.returned = Some(<<"Age", "Education", "Income">>)

(***************************************************************************)
(* TTest and the variances it assumes                                      *)
(***************************************************************************)
\* The first run of a TTest that was constructed without the homoscedastic
\* argument, ending normally.
DefaultTTestRun ==
    /\ runner # None
    /\ runner[1].class = "TTest"
    /\ last.op = "__init__"
    /\ last.args[2] = None
    /\ RunStep
    /\ last'.exc = ""

\* C22: a TTest constructed without a homoscedastic argument runs the
\* equal-variance test: the library is called with equal_var true and the
\* result records homoscedastic as true.
C22_DefaultAssumesEqualVariances ==
    [][DefaultTTestRun =>
         /\ TTest_equal_var(runner[1])
         /\ runner'[1].result[1].homoscedastic]_vars

(***************************************************************************)
(* Properties of the id generators.                                        *)
(***************************************************************************)
NextReturned == last.op = "__next__" /\ last.exc = ""

\* C23: every id __next__ returns is text of exactly `size` decimal digits,
\* whatever the size of the instance and whatever was drawn.
C23_IdHasSizeDigits ==
    NextReturned =>
        /\ Len(last.returned) = idgens[last.args[1]].size
        /\ \A i \in 1..Len(last.returned) : last.returned[i] \in 0..9

(***************************************************************************)
(* Properties of PearsonCorrelationResult.plot.                            *)
(***************************************************************************)
PearsonPlotted ==
    /\ obj.class = "PearsonCorrelationResult"
    /\ nplots' = nplots + 1
    /\ last'.op = "plot"

\* The Axes objects a step drew on: the new ones and the ones holding more
\* than before.
DrawnOn == {a \in DOMAIN axes' : a \notin DOMAIN axes \/ axes'[a] # axes[a]}

\* C24: every plot call on a Pearson result draws on exactly one axes: the
\* caller's when one is given, which is kept in place of the earlier one;
\* else the one kept by the previous call; and the canvas makes a new axes
\* only when none is given and none has been kept yet.
C24_PlotAxes ==
    [][PearsonPlotted =>
        LET ax == last'.args[1] IN
        /\ ax # None => DrawnOn = {ax[1]}
        /\ ax = None /\ obj.ax # None => DrawnOn = {obj.ax[1]}
        /\ DOMAIN axes' # DOMAIN axes <=> ax = None /\ obj.ax = None
        /\ obj'.ax # None /\ DrawnOn = {obj'.ax[1]}
        /\ \A a \in DOMAIN axes : a \in DOMAIN axes']_vars

\* A third call without an axes, after a call without one (the canvas made
\* an axes) and a call with the caller's, which replaced it: the caller's
\* axes holds the drawings of two calls.
C24_Witness_GivenThenKept ==
    /\ obj.class = "PearsonCorrelationResult"
    /\ nplots = 3
    /\ last.op = "plot" /\ last.args[1] = None
    /\ <<"canvas", 1>> \in DOMAIN axes
    /\ obj.ax = Some(<<"caller", 2>>)
    /\ Len(axes[<<"caller", 2>>]) = 4
    /\ Len(axes[<<"canvas", 1>>]) = 2

\* C25: with the instances used one after another and no reset, no id is
\* returned twice for one id file.
C25_NoIdTwice ==
    \A i, j \in 1..Len(handed) : i # j => handed[i] # handed[j]

InNext(g) == idgens[g].pc \in {"load", "loop", "save"}

\* C26: every call of __next__ ends, by a return or by an exception, when
\* every value is drawn again and again; also when the list loaded from the
\* file holds every id of the instance's size.
C26_NextTerminates ==
    \A g \in IdGens : InNext(g) ~> ~InNext(g)

\* The ids other calls returned while the call of g that returns in this
\* step was under way.
HandedMeanwhile(g) ==
    {handed[k] : k \in (idgens[g].since + 1)..Len(handed)}

\* C27: when the __next__ calls of two instances sharing the file overlap,
\* the id one of them returns is none of the ids returned during it.
C27_OverlappingCallsDiffer ==
    [][\A g \in IdGens :
          RandomIDGen_next_save(g) => idgens[g].id[1] \notin HandedMeanwhile(g)]_vars

(***************************************************************************)
(* Properties of Canvas.get_figaxes.                                       *)
(***************************************************************************)
FigaxesCalled == obj # None /\ obj.class = "Canvas" /\ last.op = "get_figaxes"

\* C30: for two plots or more, get_figaxes returns as many axes as plots,
\* each within ceil(nplots / maxcols) rows and min(maxcols, nplots) columns,
\* no grid cell under two axes, and the last axes, and no other, taking its
\* row from its column to the end.
C30_GridOfAxes ==
    FigaxesCalled /\ last.args[1] >= 2 =>
        LET count == last.args[1]
            returned == axes[Len(axes)]
            nrows == ceil(count, obj.maxcols)
            ncols == Min({obj.maxcols, count})
        IN  /\ Len(returned) = count
            /\ \A i \in 1..Len(returned) :
                  /\ returned[i].row \in 0..(nrows - 1)
                  /\ returned[i].col \in 0..(ncols - 1)
                  /\ returned[i].to_end <=> i = count
                  /\ Cells(returned[i], ncols) # {}
            /\ \A i, j \in 1..Len(returned) :
                  i # j => Cells(returned[i], ncols) \cap Cells(returned[j], ncols) = {}

\* Five plots on three columns: the last axes starts in the middle of the
\* second row and covers two cells.
C30_Witness_LastAxesWide ==
    /\ FigaxesCalled
    /\ last.args[1] = 5 /\ obj.maxcols = 3
    /\ Cells(axes[Len(axes)][5], 3) = {<<1, 1>>, <<1, 2>>}

(***************************************************************************)
(* Properties of the chi-square goodness of fit computation.               *)
(***************************************************************************)
ChiSquareGOFCalledWithExpected ==
    /\ runner # None /\ runner[1].class = "ChiSquareGOFTest"
    /\ last.op = "__call__"
    /\ last.args[2] # None

\* C28: when expected frequencies are given, the observed and the expected
\* frequencies handed to the library are equally many and stand, position by
\* position, for the same category label.
C28_FrequenciesAligned ==
    ChiSquareGOFCalledWithExpected =>
        LET passed == ChiSquareGOFTest_frequencies(last.args[1], last.args[2][1])
        IN  /\ Len(passed.f_obs) = Len(passed.f_exp)
            /\ passed.obs_labels = passed.exp_labels

(***************************************************************************)
(* Properties of QuantitativeOne.test_distribution.                        *)
(***************************************************************************)
\* test_distribution was called on a QuantitativeOne for a column the data
\* has and a distribution the module knows.
QuantitativeTested ==
    /\ last.op = "test_distribution"
    /\ last.args[1] = "QuantitativeOne"
    /\ last.args[3] \in last.args[2].columns
    /\ last.args[4] \in DISTRIBUTIONS

\* C29: for an existing variable name, test_distribution returns a goodness
\* of fit result: Shapiro-Wilk for "normal" and fewer than 50 rows, else
\* chi-square when discrete, else Kolmogorov-Smirnov.
C29_GoodnessOfFitByCase ==
    QuantitativeTested =>
        /\ last.exc = ""
        /\ last.returned # None
        /\ last.returned[1].class = "StatTestOneGoF"
        /\ last.returned[1].test =
              IF last.args[4] = "normal" /\ last.args[2].nrows < 50
              THEN "Shapiro-Wilk Test for Normality"
              ELSE IF last.args[6] THEN "Chi-Square Goodness of Fit"
              ELSE "Kolmogorov-Smirnov Goodness-of-Fit"

=============================================================================
